---- MODULE Spec2Model ----
(***************************************************************************)
(* Model of the gyroflow Controller (src/src/controller.rs) and of the     *)
(* compute backend initialisation (src/src/core/gpu/mod.rs): the recompute *)
(* scheduler seen from Controller::recompute_threaded, the shared cancel   *)
(* flag and the background tasks that carry it, the offset map written by  *)
(* the setters and by the completion callback of a sync run, the locks on  *)
(* the gyro source and on the lens calibrator, set_integration_method, the *)
(* load_telemetry task with its queued callbacks, and the decode-and-feed  *)
(* tasks of start_autosync and start_autocalibrate.  Further parts model   *)
(* the contents of the lens calibrator (forced frames, image points, used  *)
(* points) under start_autocalibrate and remove_calibration_point, the     *)
(* keyframe methods, the integration of the motion data, onResize, the     *)
(* export and the import of the project file, and the start of a sync run. *)
(* The last parts model the is_calibrator flag around the solve step, the  *)
(* loading_gyro_in_progress flag of load_telemetry, the order in which the *)
(* operations take the locks of the stabilizer, and offsets_model as kept  *)
(* by update_offset_model.                                                 *)
(*                                                                         *)
(* StabilizationManager, GyroSource, KeyframeManager, LensCalibrator,      *)
(* LensProfile, AutosyncProcess, VideoProcessor and the queued-callback    *)
(* helpers live in parts of the repository that are                        *)
(* not in the tree under src/; their behaviour is modelled from the        *)
(* specification and is marked as such in the model map.                   *)
(***************************************************************************)
EXTENDS Integers, Sequences, FiniteSets, TLC

\* ------------------------------------------------------------------ bounds

\* Number of recompute requests issued in one behaviour.
MaxComputations == 3
\* Distinct values a rendering parameter can be set to (0 .. MaxValue).
MaxValue == 1
\* Number of background tasks carrying the cancel flag started in one behaviour.
MaxTasks == 3
\* Largest number of sync points requested of one sync run.
MaxPoints == 2
\* The setters write offsets at 0, 100 ms, ..., MaxKeySteps * 100 ms.
MaxKeySteps == 2

\* ------------------------------------------------------- program constants

\* `* 1000.0`: milliseconds to microseconds, in the set_offsets callback.
UsPerMs == 1000
\* `remove_offsets_near(new_ts, 100.0)`: the range, in milliseconds.
RemoveNearRangeMs == 100

VARIABLES
    \* ---- recompute scheduler
    params,                \* the rendering parameter held by the stabilizer
    current_generation,    \* the store's generation counter
    next_id,               \* the next computation id to hand out
    n_mutations,           \* number of parameter mutations issued so far
    comps,                 \* id -> [generation, input, state]
    applied,               \* the applied result: [generation, id, input]
    queued_callbacks,      \* callbacks posted to the control thread, in order
    ongoing_computations,  \* Controller::ongoing_computations
    compute_progress,      \* last compute_progress signal: [id, progress, from]
    \* ---- cancel flag and the background tasks that hold a clone of it
    cancel_flag,           \* Controller::cancel_flag (Arc<AtomicBool>)
    tasks,                 \* slot -> [kind, pc, cancelled_since]
    n_tasks,               \* number of tasks started so far
    \* ---- offset map and sync run
    offsets,               \* gyro offsets: timestamp (us) -> offset (ms)
    sync,                  \* the sync run: [pc, for_rs, requested, resolved,
                           \*                delivered, removed]
    query,                 \* last offset_at_video_timestamp call: [ts, num, den]
    \* ---- the gyro lock and the steps of the set_offsets callback
    gyro_lock,             \* stabilizer.gyro (RwLock): [writer, readers]
    offsets_cb,            \* the set_offsets callback: [pc, pending, before]
    last_read,             \* what the last reader of the map saw: [n, half, view]
    \* ---- compute backend initialisation (core/gpu/mod.rs)
    gpu_init,              \* one call of initialize_contexts: [pc, stage, env,
                           \*   probed, log, result]
    \* ---- integration method
    integ,                 \* [method, n_calls, pending, posted, reintegrations,
                           \*  invalidations, recompute_requests, last]
    calib,                  \* lens calibrator: [lock, tasks, n_started, ctl]
    telem,                  \* load_telemetry tasks: [tasks, queue, n_started]
    feed,                   \* decode-and-feed task: [pc, kind, every_nth, abs_frame_no, frame_no, result, log]
    estimate,               \* per-point offset estimation: [results, last]
    lenscal,                \* contents of stabilizer.lens_calibrator and the Lens Model
    keyframes,              \* keyframes of one parameter type and the last sample: [keys, last]
    motion,                 \* raw samples, integration inputs and orientations: [raw, method, bias, rotation, quaternions, other, seen]
    sizes,                  \* frame size and output size of the params and the last resize: [size, output_size, last]
    exporter,               \* export_gyroflow_file: [files, last]
    autosync,               \* start_autosync: [sync_in_progress, queue, task, n_calls, offset_map, emitted, last]
    importer,               \* project import: [lens_loaded, loading, n_calls, running, queue, process, last]
    calmode,                \* calibrator mode: [is_calibrator, calib_in_progress, tasks, queue, ...]
    gyroload,               \* telemetry loading: [loading_gyro_in_progress, tasks, queue, ...]
    locking,                \* lock acquisitions: process -> [op, pc, held]
    offmodel               \* offsets_model and the keys of the offset map

rvars == <<params, current_generation, next_id, n_mutations, comps, applied,
           queued_callbacks, ongoing_computations, compute_progress>>

cvars == <<cancel_flag, tasks, n_tasks>>

ovars == <<offsets, sync, query>>

lvars == <<gyro_lock, offsets_cb, last_read>>

\* The variables of the parts that follow the gyro lock.
yvars == <<gpu_init, integ, calib, telem, feed, estimate, lenscal, keyframes, motion, sizes, exporter, autosync, importer, calmode, gyroload, locking, offmodel>>

\* Everything outside the recompute scheduler, the cancel flag and the offsets.
xvars == <<lvars, yvars>>

vars == <<params, current_generation, next_id, n_mutations, comps, applied,
          queued_callbacks, ongoing_computations, compute_progress,
          cancel_flag, tasks, n_tasks, offsets, sync, query,
          gyro_lock, offsets_cb, last_read, gpu_init, integ,
          calib,
          telem,
          feed,
          estimate,
          lenscal,
          keyframes,
          motion,
          sizes,
          exporter,
          autosync,
          importer,
          calmode,
          gyroload,
          locking,
          offmodel>>

\* ------------------------------------------------------- recompute scheduler

Ids == 1..MaxComputations
Values == 0..MaxValue

TerminalStates == {"Completed", "Discarded", "Cancelled"}
CompStates == {"Idle", "Queued", "Running"} \cup TerminalStates

NoResult == [generation |-> 0, id |-> 0, input |-> 0]
NoSignal == [id |-> 0, progress |-> 0, from |-> "none"]
IdleComp == [generation |-> 0, input |-> 0, state |-> "Idle"]

InitRecompute ==
    /\ params = 0
    /\ current_generation = 0
    /\ next_id = 1
    /\ n_mutations = 0
    /\ comps = [i \in Ids |-> IdleComp]
    /\ applied = NoResult
    /\ queued_callbacks = <<>>
    /\ ongoing_computations = {}
    /\ compute_progress = NoSignal

\* A result is stale when the generation it was tagged with is no longer the
\* store's current generation.
IsStale(g, cur) == g # cur

\* Variant: a stale computation is put back in the queue instead of ending.
FinishStateRequeue(g, cur) == IF g # cur THEN "Queued" ELSE "Completed"

\* The state a Running computation ends in when it reaches the apply step.
FinishState(g, cur) == IF IsStale(g, cur) THEN "Discarded" ELSE "Completed"

\* Variant: the result is written without looking at its generation.
ApplyResultAlways(id, c, cur, app) ==
    [generation |-> c.generation, id |-> id, input |-> c.input]

\* The applied state after computation `id` (record c) reaches the apply step.
ApplyResult(id, c, cur, app) ==
    IF IsStale(c.generation, cur)
    THEN app
    ELSE [generation |-> c.generation, id |-> id, input |-> c.input]

\* StabilizationManager::recompute_threaded: bump the generation, take a fresh
\* id, snapshot the parameters and queue the computation.
\* Variant: the generation counter is left as it is.
NewGenerationSame(cur) == cur
NewGeneration(cur) == cur + 1
\* Variant: the first id is handed out again.
FreshIdReused(nid) == 1
FreshId(nid) == nid
QueueComputation(cs, id, g, input) ==
    [cs EXCEPT ![id] = [generation |-> g, input |-> input, state |-> "Queued"]]

\* Variant: every completion is reported as the last one.
ProgressValueAlwaysDone(ongoing) == 1

\* Variant: no completion is reported as the last one.
ProgressValueNeverDone(ongoing) == 0

\* The value the completion callback passes to compute_progress.
ProgressValue(ongoing) == IF ongoing = {} THEN 1 ELSE 0

\* Controller::recompute_threaded, after a parameter setter changed `params`.
RecomputeThreaded(v) ==
    /\ next_id <= MaxComputations
    /\ params' = v
    /\ n_mutations' = n_mutations + 1
    /\ current_generation' = NewGeneration(current_generation)
    /\ LET id == FreshId(next_id) IN
        /\ comps' = QueueComputation(comps, id, current_generation', v)
        /\ ongoing_computations' = ongoing_computations \cup {id}
        /\ compute_progress' = [id |-> id, progress |-> 0, from |-> "request"]
    /\ next_id' = next_id + 1
    /\ UNCHANGED <<applied, queued_callbacks>>
    /\ UNCHANGED <<cvars, ovars, xvars>>

SetParam == \E v \in Values : RecomputeThreaded(v)

\* A pool thread picks the queued computation up.
StartComputation(id) ==
    /\ comps[id].state = "Queued"
    /\ comps' = [comps EXCEPT ![id].state = "Running"]
    /\ UNCHANGED <<params, current_generation, next_id, n_mutations, applied,
                   queued_callbacks, ongoing_computations, compute_progress>>
    /\ UNCHANGED <<cvars, ovars, xvars>>

\* Between two stages a running computation finds itself superseded and stops
\* early; the callback is told the result was discarded.
AbortComputation(id) ==
    /\ comps[id].state = "Running"
    /\ IsStale(comps[id].generation, current_generation)
    /\ comps' = [comps EXCEPT ![id].state = "Cancelled"]
    /\ queued_callbacks' = Append(queued_callbacks, [id |-> id, discarded |-> TRUE])
    /\ UNCHANGED <<params, current_generation, next_id, n_mutations, applied,
                   ongoing_computations, compute_progress>>
    /\ UNCHANGED <<cvars, ovars, xvars>>

\* The computation reaches the apply step: applied if current, else discarded.
FinishComputation(id) ==
    /\ comps[id].state = "Running"
    /\ comps' = [comps EXCEPT ![id].state =
                    FinishState(comps[id].generation, current_generation)]
    /\ applied' = ApplyResult(id, comps[id], current_generation, applied)
    /\ queued_callbacks' = Append(queued_callbacks,
            [id |-> id,
             discarded |-> IsStale(comps[id].generation, current_generation)])
    /\ UNCHANGED <<params, current_generation, next_id, n_mutations,
                   ongoing_computations, compute_progress>>
    /\ UNCHANGED <<cvars, ovars, xvars>>

\* Variant: the id of a discarded result is left in the set.
KeepDiscarded(ongoing, cb) == IF cb.discarded THEN ongoing ELSE ongoing \ {cb.id}

\* `this.ongoing_computations.remove(&id)`, whatever `_discarded` says.
OngoingAfterCallback(ongoing, cb) == ongoing \ {cb.id}

\* The queued completion callback of Controller::recompute_threaded, run by
\* the control thread.
ComputeCallback ==
    /\ queued_callbacks # <<>>
    /\ LET cb == Head(queued_callbacks) IN
        /\ ongoing_computations' = OngoingAfterCallback(ongoing_computations, cb)
        /\ compute_progress' = [id |-> cb.id,
                                progress |-> ProgressValue(ongoing_computations'),
                                from |-> "callback"]
    /\ queued_callbacks' = Tail(queued_callbacks)
    /\ UNCHANGED <<params, current_generation, next_id, n_mutations, comps, applied>>
    /\ UNCHANGED <<cvars, ovars, xvars>>

\* ------------------------------------------- cancel flag and background tasks

Slots == 1..MaxTasks
TaskKinds == {"autosync", "telemetry", "autocalibrate", "import"}
IdleTask == [kind |-> "none", pc |-> "idle", cancelled_since |-> FALSE]

InitCancel ==
    /\ cancel_flag = FALSE
    /\ tasks = [t \in Slots |-> IdleTask]
    /\ n_tasks = 0

\* A task owns its clones of the Arc from the moment its closure is built
\* until its thread returns.
HoldsRef(t) == tasks[t].pc \in {"spawned", "sleeping", "ready", "working"}

\* Arc::strong_count: the controller's own handle, one clone per live task,
\* and a second one for a sync run (AutosyncProcess and the decoder closure).
StrongCount ==
    1 + Cardinality({t \in Slots : HoldsRef(t)})
      + Cardinality({t \in Slots : HoldsRef(t) /\ tasks[t].kind = "autosync"})

\* The import thread sleeps when some other task holds a clone.
OthersHoldRef(count) == count > 2

\* A store of `true` reaches every task that is live at that moment.
MarkCancelled(ts) ==
    [t \in Slots |->
        IF ts[t].pc \in {"spawned", "sleeping", "ready", "working"}
        THEN [ts[t] EXCEPT !.cancelled_since = TRUE]
        ELSE ts[t]]

Spawn(ts, t, kind, pc) ==
    [ts EXCEPT ![t] = [kind |-> kind, pc |-> pc, cancelled_since |-> FALSE]]

\* Variant: the flag is left as the previous operation left it.
FlagKept(flag) == flag

\* cancel_flag.store(false) at the start of start_autosync.
FlagAtAutosyncStart(flag) == FALSE
\* cancel_flag.store(false) at the start of load_telemetry.
FlagAtTelemetryStart(flag) == FALSE
\* cancel_flag.store(false) at the start of start_autocalibrate.
FlagAtAutocalibrateStart(flag) == FALSE
\* cancel_flag.store(false) in the import thread, before the import itself.
FlagAtImportStart(flag) == FALSE

\* Controller::start_autosync. `outcome` is what the inputs lead to: the
\* sync_params JSON does not parse, from_manager rejects them, or the run starts.
StartAutosync(outcome) ==
    /\ n_tasks < MaxTasks
    /\ IF outcome = "parse_error"
       THEN UNCHANGED cvars
       ELSE /\ cancel_flag' = FlagAtAutosyncStart(cancel_flag)
            /\ IF outcome = "ok"
               THEN /\ tasks' = Spawn(tasks, n_tasks + 1, "autosync", "working")
                    /\ n_tasks' = n_tasks + 1
               ELSE UNCHANGED <<tasks, n_tasks>>
    /\ UNCHANGED <<rvars, ovars, xvars>>

\* Controller::load_telemetry. The flag is cleared only when the player is a
\* video item; the task is started only when duration and fps are positive.
LoadTelemetry(is_video_item, has_duration) ==
    /\ n_tasks < MaxTasks
    /\ IF ~is_video_item
       THEN UNCHANGED cvars
       ELSE /\ cancel_flag' = FlagAtTelemetryStart(cancel_flag)
            /\ IF has_duration
               THEN /\ tasks' = Spawn(tasks, n_tasks + 1, "telemetry", "working")
                    /\ n_tasks' = n_tasks + 1
               ELSE UNCHANGED <<tasks, n_tasks>>
    /\ UNCHANGED <<rvars, ovars, xvars>>

\* Controller::start_autocalibrate (also reached from add_calibration_point).
StartAutocalibrate ==
    /\ n_tasks < MaxTasks
    /\ cancel_flag' = FlagAtAutocalibrateStart(cancel_flag)
    /\ tasks' = Spawn(tasks, n_tasks + 1, "autocalibrate", "working")
    /\ n_tasks' = n_tasks + 1
    /\ UNCHANGED <<rvars, ovars, xvars>>

\* The control-thread part of import_gyroflow_file / import_gyroflow_data:
\* clone the flag, store true to stop what is running, start the thread.
ImportCall ==
    /\ n_tasks < MaxTasks
    /\ cancel_flag' = TRUE
    /\ tasks' = Spawn(MarkCancelled(tasks), n_tasks + 1, "import", "spawned")
    /\ n_tasks' = n_tasks + 1
    /\ UNCHANGED <<rvars, ovars, xvars>>

ImportGyroflowFile == ImportCall
ImportGyroflowData == ImportCall

\* Variant: cancelling also drops what the offset map holds.
CancelAndClearOffsets ==
    /\ cancel_flag' = TRUE
    /\ tasks' = MarkCancelled(tasks)
    /\ offsets' = [k \in {} |-> 0]
    /\ UNCHANGED <<n_tasks, sync, query>>
    /\ UNCHANGED <<rvars, xvars>>

\* Controller::cancel_current_operation.
CancelCurrentOperation ==
    /\ cancel_flag' = TRUE
    /\ tasks' = MarkCancelled(tasks)
    /\ UNCHANGED n_tasks
    /\ UNCHANGED <<rvars, ovars, xvars>>

\* Import thread: `if Arc::strong_count(&cancel_flag) > 2 { sleep(200 ms) }`.
ImportCheckCount(t) ==
    /\ tasks[t].kind = "import" /\ tasks[t].pc = "spawned"
    /\ tasks' = [tasks EXCEPT ![t].pc =
                    IF OthersHoldRef(StrongCount) THEN "sleeping" ELSE "ready"]
    /\ UNCHANGED <<cancel_flag, n_tasks>>
    /\ UNCHANGED <<rvars, ovars, xvars>>

\* The single 200 ms sleep is over, whatever the other tasks did meanwhile.
ImportWake(t) ==
    /\ tasks[t].kind = "import" /\ tasks[t].pc = "sleeping"
    /\ tasks' = [tasks EXCEPT ![t].pc = "ready"]
    /\ UNCHANGED <<cancel_flag, n_tasks>>
    /\ UNCHANGED <<rvars, ovars, xvars>>

\* Import thread: store false, then call stab.import_gyroflow_file / _data.
ImportBegin(t) ==
    /\ tasks[t].kind = "import" /\ tasks[t].pc = "ready"
    /\ cancel_flag' = FlagAtImportStart(cancel_flag)
    /\ tasks' = [tasks EXCEPT ![t].pc = "working"]
    /\ UNCHANGED n_tasks
    /\ UNCHANGED <<rvars, ovars, xvars>>

\* A working task reads the flag between two iterations and stops when it is
\* set; its thread returns and its clones are dropped.
TaskObserveCancel(t) ==
    /\ tasks[t].pc = "working"
    /\ cancel_flag
    /\ tasks' = [tasks EXCEPT ![t].pc = "aborted"]
    /\ UNCHANGED <<cancel_flag, n_tasks>>
    /\ UNCHANGED <<rvars, ovars, xvars>>

\* A working task runs to its end without meeting a set flag.
TaskFinish(t) ==
    /\ tasks[t].pc = "working"
    /\ tasks' = [tasks EXCEPT ![t].pc = "done"]
    /\ UNCHANGED <<cancel_flag, n_tasks>>
    /\ UNCHANGED <<rvars, ovars, xvars>>

\* ------------------------------------------------- offset map and sync run

EmptyMap == [k \in {} |-> 0]
NoQuery == [ts |-> -1, num |-> 0, den |-> 1]
IdleSync == [pc |-> "idle", for_rs |-> FALSE, requested |-> 0,
             resolved |-> <<>>, delivered |-> <<>>, removed |-> 0]

InitOffsets ==
    /\ offsets = EmptyMap
    /\ sync = IdleSync
    /\ query = NoQuery

\* Offsets (ms) a setter or a resolved sync point can carry.
OffsetValuesMs == {-50, 50}
\* Timestamps (us) the offset setters are called with.
SetterTimestampsUs == {k * 100 * UsPerMs : k \in 0..MaxKeySteps}
\* Video timestamp (ms) of the i-th requested sync point.
PointTsMs(i) == 150 * i
\* Timestamps (us) offset_at_video_timestamp is asked for: the setters' own,
\* and 25 ms to either side of each (before the first, between, after the last).
QueryTimestampsUs ==
    UNION {{k - 25 * UsPerMs, k, k + 25 * UsPerMs} : k \in SetterTimestampsUs}

Abs(x) == IF x < 0 THEN -x ELSE x
Min(S) == CHOOSE x \in S : \A y \in S : x <= y
Max(S) == CHOOSE x \in S : \A y \in S : y <= x

\* GyroSource::set_offset: insert, or overwrite the entry at the same key.
set_offset(offs, ts, v) ==
    [k \in DOMAIN offs \cup {ts} |-> IF k = ts THEN v ELSE offs[k]]

\* GyroSource::remove_offset.
remove_offset(offs, ts) == [k \in DOMAIN offs \ {ts} |-> offs[k]]

\* GyroSource::clear_offsets.
clear_offsets(offs) == EmptyMap

\* An entry at key k lies within range_ms of ts.
IsNear(k, ts, range_ms) == Abs(k - ts) <= range_ms * UsPerMs

\* GyroSource::remove_offsets_near: purge the entries within range_ms of ts.
remove_offsets_near(offs, ts, range_ms) ==
    [k \in {j \in DOMAIN offs : ~IsNear(j, ts, range_ms)} |-> offs[k]]

RECURSIVE Gcd(_, _)
Gcd(a, b) == IF b = 0 THEN a ELSE Gcd(b, a % b)

\* The fraction n / d (d > 0) in lowest terms, standing for the f64 returned.
Fraction(n, d) == LET g == Gcd(Abs(n), d) IN <<n \div g, d \div g>>

\* GyroSource::offset_at_video_timestamp, as the fraction <<num, den>>: the
\* entry at or before ts and the entry at or after ts are looked up; with both
\* the value is interpolated linearly, with one only that entry's value is
\* returned, with none 0.
offset_at(offs, ts) ==
    LET before == {k \in DOMAIN offs : k <= ts}
        after  == {k \in DOMAIN offs : k >= ts}
    IN  IF before = {} /\ after = {} THEN <<0, 1>>
        ELSE IF before = {} THEN <<offs[Min(after)], 1>>
        ELSE IF after = {} THEN <<offs[Max(before)], 1>>
        ELSE LET k1 == Max(before)
                 k2 == Min(after)
             IN  IF k1 = k2 THEN <<offs[k1], 1>>
                 ELSE Fraction(offs[k1] * (k2 - ts) + offs[k2] * (ts - k1),
                               k2 - k1)

\* Variant: the timestamp is handed on in milliseconds.
offset_at_video_timestamp_ms(offs, timestamp_us) ==
    offset_at(offs, timestamp_us \div UsPerMs)

\* Controller::offset_at_video_timestamp: hands timestamp_us to the stabilizer.
offset_at_video_timestamp(offs, timestamp_us) == offset_at(offs, timestamp_us)

\* Variant: the offset is added to the timestamp.
NewTsAddsOffset(x) == (x.ts + x.offset) * UsPerMs

\* `let new_ts = ((x.0 - x.1) * 1000.0) as i64`.
NewTs(x) == (x.ts - x.offset) * UsPerMs

\* Variant: the new entry is written without purging its neighbourhood.
ApplySyncOffsetNoRemove(offs, x) == set_offset(offs, NewTs(x), x.offset)

\* One turn of the loop of the set_offsets callback.
ApplySyncOffset(offs, x) ==
    set_offset(remove_offsets_near(offs, NewTs(x), RemoveNearRangeMs),
               NewTs(x), x.offset)

\* The loop of the set_offsets callback over the delivered results, in order.
RECURSIVE ApplySyncOffsets(_, _)
ApplySyncOffsets(offs, batch) ==
    IF batch = <<>> THEN offs
    ELSE ApplySyncOffsets(ApplySyncOffset(offs, Head(batch)), Tail(batch))

\* set_offset, as a control-surface setter.
SetOffset(ts, v) ==
    /\ offsets' = set_offset(offsets, ts, v)
    /\ query' = NoQuery
    /\ UNCHANGED sync
    /\ UNCHANGED <<rvars, cvars, xvars>>

\* remove_offset, as a control-surface setter.
RemoveOffset(ts) ==
    /\ ts \in DOMAIN offsets
    /\ offsets' = remove_offset(offsets, ts)
    /\ query' = NoQuery
    /\ UNCHANGED sync
    /\ UNCHANGED <<rvars, cvars, xvars>>

\* clear_offsets, as a control-surface setter.
ClearOffsets ==
    /\ offsets # EmptyMap
    /\ offsets' = clear_offsets(offsets)
    /\ query' = NoQuery
    /\ UNCHANGED sync
    /\ UNCHANGED <<rvars, cvars, xvars>>

\* Controller::offset_at_video_timestamp.
OffsetAtVideoTimestamp(ts) ==
    /\ LET r == offset_at_video_timestamp(offsets, ts) IN
          query' = [ts |-> ts, num |-> r[1], den |-> r[2]]
    /\ UNCHANGED <<offsets, sync>>
    /\ UNCHANGED <<rvars, cvars, xvars>>

\* Controller::start_autosync with parameters that are accepted: the flag is
\* cleared and the run for `m` sync points starts decoding.
StartAutosyncRun(m, for_rs) ==
    /\ sync.pc \in {"idle", "applied"}
    /\ cancel_flag' = FlagAtAutosyncStart(cancel_flag)
    /\ sync' = [pc |-> "feeding", for_rs |-> for_rs, requested |-> m,
                resolved |-> <<>>, delivered |-> <<>>, removed |-> 0]
    /\ UNCHANGED <<tasks, n_tasks, offsets, query>>
    /\ UNCHANGED <<rvars, xvars>>

\* The frames of the next sync point have been fed and the point is resolved.
\* Nothing is resolved any more once the flag is set.
ResolvePoint(o) ==
    /\ sync.pc = "feeding"
    /\ ~cancel_flag
    /\ Len(sync.resolved) < sync.requested
    /\ sync' = [sync EXCEPT !.resolved =
            Append(@, [ts |-> PointTsMs(Len(@) + 1), offset |-> o])]
    /\ UNCHANGED <<offsets, query>>
    /\ UNCHANGED <<rvars, cvars, xvars>>

\* The results a run hands to on_finished: the points resolved so far.
DeliveredResults(resolved, requested) == resolved

\* start_decoder_only returns (all ranges decoded, or the flag was set) and
\* finished_feeding_frames makes the run post its results.
DecoderReturns ==
    /\ sync.pc = "feeding"
    /\ cancel_flag \/ Len(sync.resolved) = sync.requested
    /\ sync' = [sync EXCEPT !.pc = "finished",
                            !.delivered = DeliveredResults(sync.resolved,
                                                           sync.requested)]
    /\ UNCHANGED <<offsets, query>>
    /\ UNCHANGED <<rvars, cvars, xvars>>

\* The queued set_offsets callback of start_autosync.
SetOffsetsCallback ==
    /\ sync.pc = "finished"
    /\ offsets' = IF sync.for_rs THEN offsets
                  ELSE ApplySyncOffsets(offsets, sync.delivered)
    /\ sync' = [sync EXCEPT !.pc = "applied",
                            !.removed = Cardinality(DOMAIN offsets \ DOMAIN offsets')]
    /\ query' = NoQuery
    /\ UNCHANGED <<rvars, cvars, xvars>>

\* ------------------------------- the gyro lock and the set_offsets callback

\* Readers that can hold stabilizer.gyro at the same time.
MaxReaders == 2

FreeLock == [writer |-> FALSE, readers |-> 0]
IdleCallback == [pc |-> "idle", pending |-> <<>>, before |-> EmptyMap]
NoRead == [n |-> 0, half |-> FALSE, view |-> EmptyMap]

InitLock ==
    /\ gyro_lock = FreeLock
    /\ offsets_cb = IdleCallback
    /\ last_read = NoRead

\* Variant: a reader looks at the map without taking the lock.
CanReadUnlocked(lock) == TRUE

\* `gyro.read()` is granted while no writer holds the lock.
CanRead(lock) == ~lock.writer

\* `gyro.write()` is granted while nobody holds the lock.
CanWrite(lock) == ~lock.writer /\ lock.readers = 0

\* The map is half-updated: the entries near the new key were purged and the
\* new entry is not inserted yet.
HalfUpdated == offsets_cb.pc = "insert"

\* The queued set_offsets callback starts on the control thread. For a rolling
\* shutter estimate the map is not touched; otherwise `gyro.write()` is taken
\* before the loop over the delivered results.
CbBegin ==
    /\ sync.pc = "finished"
    /\ offsets_cb.pc = "idle"
    /\ IF sync.for_rs
       THEN /\ offsets_cb' = [pc |-> "tail", pending |-> <<>>, before |-> offsets]
            /\ UNCHANGED gyro_lock
       ELSE /\ CanWrite(gyro_lock)
            /\ gyro_lock' = [gyro_lock EXCEPT !.writer = TRUE]
            /\ offsets_cb' = [pc |-> "loop", pending |-> sync.delivered, before |-> offsets]
    /\ UNCHANGED <<offsets, sync, query, last_read>>
    /\ UNCHANGED <<rvars, cvars, yvars>>

\* `gyro.remove_offsets_near(new_ts, 100.0)` for the next result.
CbRemoveNear ==
    /\ offsets_cb.pc = "loop"
    /\ offsets_cb.pending # <<>>
    /\ offsets' = remove_offsets_near(offsets, NewTs(Head(offsets_cb.pending)),
                                      RemoveNearRangeMs)
    /\ offsets_cb' = [offsets_cb EXCEPT !.pc = "insert"]
    /\ UNCHANGED <<sync, query, gyro_lock, last_read>>
    /\ UNCHANGED <<rvars, cvars, yvars>>

\* `gyro.set_offset(new_ts, x.1)` for the same result.
CbSetOffset ==
    /\ offsets_cb.pc = "insert"
    /\ offsets' = set_offset(offsets, NewTs(Head(offsets_cb.pending)),
                             Head(offsets_cb.pending).offset)
    /\ offsets_cb' = [offsets_cb EXCEPT !.pc = "loop", !.pending = Tail(@)]
    /\ UNCHANGED <<sync, query, gyro_lock, last_read>>
    /\ UNCHANGED <<rvars, cvars, yvars>>

\* The loop is over and the write guard goes out of scope.
CbRelease ==
    /\ offsets_cb.pc = "loop"
    /\ offsets_cb.pending = <<>>
    /\ gyro_lock' = [gyro_lock EXCEPT !.writer = FALSE]
    /\ offsets_cb' = [offsets_cb EXCEPT !.pc = "tail"]
    /\ UNCHANGED <<offsets, sync, query, last_read>>
    /\ UNCHANGED <<rvars, cvars, yvars>>

\* update_offset_model and request_recompute: the callback returns.
CbEnd ==
    /\ offsets_cb.pc = "tail"
    /\ CanRead(gyro_lock)
    /\ sync' = [sync EXCEPT !.pc = "applied",
                            !.removed = Cardinality(DOMAIN offsets_cb.before \ DOMAIN offsets)]
    /\ offsets_cb' = IdleCallback
    /\ query' = NoQuery
    /\ UNCHANGED <<offsets, gyro_lock, last_read>>
    /\ UNCHANGED <<rvars, cvars, yvars>>

\* A thread other than the control thread takes `gyro.read()` and looks at the
\* offsets.
ReaderAcquire ==
    /\ gyro_lock.readers < MaxReaders
    /\ CanRead(gyro_lock)
    /\ gyro_lock' = [gyro_lock EXCEPT !.readers = @ + 1]
    /\ last_read' = [n |-> 1, half |-> HalfUpdated, view |-> offsets]
    /\ UNCHANGED <<offsets, sync, query, offsets_cb>>
    /\ UNCHANGED <<rvars, cvars, yvars>>

\* The reader drops its guard.
ReaderRelease ==
    /\ gyro_lock.readers > 0
    /\ gyro_lock' = [gyro_lock EXCEPT !.readers = @ - 1]
    /\ UNCHANGED <<offsets, sync, query, offsets_cb, last_read>>
    /\ UNCHANGED <<rvars, cvars, yvars>>

\* --------------------------------------------- compute backend initialisation

\* What a probe can come to: it returns the names, it returns an error (None
\* for wgpu), or it panics inside the backend library.
ProbeOutcomes == {"ok", "err", "panic"}

\* The environment of one call: is the use-opencl feature compiled in, are
\* NO_OPENCL / NO_WGPU set to a non-empty value, and what each probe comes to.
GpuEnvs == [feature_opencl : BOOLEAN, no_opencl : BOOLEAN, no_wgpu : BOOLEAN,
            cl : ProbeOutcomes, wg : ProbeOutcomes]

NoNames == "None"
NoGpuEnv == [feature_opencl |-> FALSE, no_opencl |-> FALSE, no_wgpu |-> FALSE,
             cl |-> "err", wg |-> "err"]
IdleGpuInit == [pc |-> "idle", stage |-> 1, env |-> NoGpuEnv, probed |-> <<>>,
                log |-> <<>>, result |-> NoNames]

InitGpu == gpu_init = IdleGpuInit

\* Variant: wgpu is tried before OpenCL.
ProbeOrderWgpuFirst == <<"wgpu", "OpenCL">>

\* The blocks of initialize_contexts, in source order.
ProbeOrder == <<"OpenCL", "wgpu">>

\* The guard of a block: `#[cfg(feature = "use-opencl")]` and
\* `std::env::var("NO_...").unwrap_or_default().is_empty()`.
BackendEnabled(b, env) ==
    IF b = "OpenCL" THEN env.feature_opencl /\ ~env.no_opencl
    ELSE ~env.no_wgpu

\* What the backend's initialize_context comes to in this environment.
ProbeOutcome(b, env) == IF b = "OpenCL" THEN env.cl ELSE env.wg

\* The names `Some(names)` carries: the backend's own.
BackendNames(b) == b

\* Variant: the probe is called directly, and a panic unwinds into the caller.
CallUnguarded(outcome) == IF outcome = "panic" THEN "propagate" ELSE outcome

\* std::panic::catch_unwind: a panic comes back as the value Err(e).
CatchUnwind(outcome) == outcome

\* A call of initialize_contexts begins.
InitializeContexts(env) ==
    /\ gpu_init.pc \in {"idle", "returned"}
    /\ gpu_init' = [pc |-> "probing", stage |-> 1, env |-> env, probed |-> <<>>,
                    log |-> <<>>, result |-> NoNames]
    /\ UNCHANGED <<rvars, cvars, ovars, lvars, integ, calib, telem, feed, estimate, lenscal, keyframes, motion, sizes, exporter, autosync, importer, calmode, gyroload, locking, offmodel>>

\* The next block: skipped when its guard is false; otherwise the probe runs
\* and either its names are returned or its failure is logged.
ProbeBackend ==
    /\ gpu_init.pc = "probing"
    /\ gpu_init.stage <= Len(ProbeOrder)
    /\ LET b == ProbeOrder[gpu_init.stage]
           r == CatchUnwind(ProbeOutcome(b, gpu_init.env))
       IN  IF ~BackendEnabled(b, gpu_init.env)
           THEN gpu_init' = [gpu_init EXCEPT !.stage = @ + 1]
           ELSE IF r = "ok"
           THEN gpu_init' = [gpu_init EXCEPT !.pc = "returned",
                                             !.probed = Append(@, b),
                                             !.result = BackendNames(b)]
           ELSE IF r = "propagate"
           THEN gpu_init' = [gpu_init EXCEPT !.pc = "panicked",
                                             !.probed = Append(@, b)]
           ELSE gpu_init' = [gpu_init EXCEPT !.stage = @ + 1,
                                             !.probed = Append(@, b),
                                             !.log = Append(@, [backend |-> b,
                                                                 kind |-> r])]
    /\ UNCHANGED <<rvars, cvars, ovars, lvars, integ, calib, telem, feed, estimate, lenscal, keyframes, motion, sizes, exporter, autosync, importer, calmode, gyroload, locking, offmodel>>

\* The trailing `None`.
ReturnNone ==
    /\ gpu_init.pc = "probing"
    /\ gpu_init.stage > Len(ProbeOrder)
    /\ gpu_init' = [gpu_init EXCEPT !.pc = "returned", !.result = NoNames]
    /\ UNCHANGED <<rvars, cvars, ovars, lvars, integ, calib, telem, feed, estimate, lenscal, keyframes, motion, sizes, exporter, autosync, importer, calmode, gyroload, locking, offmodel>>

\* ------------------------------------------------------- integration method

\* Number of set_integration_method calls in one behaviour.
MaxCalls == 3
\* Integration methods are numbered 0 .. MaxMethod.
MaxMethod == 2

Methods == 0..MaxMethod

NoCall == [kind |-> "none", index |-> 0, spawned |-> FALSE]

InitInteg ==
    integ = [method |-> 0, n_calls |-> 0, pending |-> <<>>, posted |-> 0,
             reintegrations |-> 0, invalidations |-> 0,
             recompute_requests |-> 0, last |-> NoCall]

\* Variant: the comparison is left out and every call re-integrates.
MethodNeverUnchanged(store_method, index) == FALSE

\* `stab.gyro.read().integration_method == index`.
MethodUnchanged(store_method, index) == store_method = index

\* The sequence s without its i-th element.
RemoveAt(s, i) == SubSeq(s, 1, i - 1) \o SubSeq(s, i + 1, Len(s))

\* Controller::set_integration_method on the control thread: return early when
\* the store already has this method, else start the background task.
SetIntegrationMethod(index) ==
    /\ integ.n_calls < MaxCalls
    /\ CanRead(gyro_lock)
    /\ IF MethodUnchanged(integ.method, index)
       THEN integ' = [integ EXCEPT
                !.n_calls = @ + 1,
                !.last = [kind |-> "call", index |-> index, spawned |-> FALSE]]
       ELSE integ' = [integ EXCEPT
                !.n_calls = @ + 1,
                !.pending = Append(@, [index |-> index, seen |-> integ.method]),
                !.last = [kind |-> "call", index |-> index, spawned |-> TRUE]]
    /\ UNCHANGED <<rvars, cvars, ovars, lvars, gpu_init, calib, telem, feed, estimate, lenscal, keyframes, motion, sizes, exporter, autosync, importer, calmode, gyroload, locking, offmodel>>

\* The background task of one call: invalidate the ongoing computations, then
\* under `gyro.write()` store the index and integrate, then invalidate the
\* smoothing and post `finished`. Tasks run in any order.
IntegrationTask(i) ==
    /\ i \in 1..Len(integ.pending)
    /\ CanWrite(gyro_lock)
    /\ integ' = [integ EXCEPT
            !.method = integ.pending[i].index,
            !.pending = RemoveAt(@, i),
            !.posted = @ + 1,
            !.reintegrations = @ + 1,
            !.invalidations = @ + 1,
            !.last = [kind |-> "task", index |-> integ.pending[i].index,
                      spawned |-> TRUE]]
    /\ UNCHANGED <<rvars, cvars, ovars, lvars, gpu_init, calib, telem, feed, estimate, lenscal, keyframes, motion, sizes, exporter, autosync, importer, calmode, gyroload, locking, offmodel>>

\* The queued `finished` callback: chart_data_changed, request_recompute.
IntegrationFinished ==
    /\ integ.posted > 0
    /\ integ' = [integ EXCEPT !.posted = @ - 1,
                              !.recompute_requests = @ + 1,
                              !.last = [kind |-> "finished", index |-> 0,
                                        spawned |-> FALSE]]
    /\ UNCHANGED <<rvars, cvars, ovars, lvars, gpu_init, calib, telem, feed, estimate, lenscal, keyframes, motion, sizes, exporter, autosync, importer, calmode, gyroload, locking, offmodel>>

\* ------------------------------------------- lens calibrator and its lock

\* Number of autocalibrate tasks started in one behaviour.
MaxCalibTasks == 3

CalibSlots == 1..MaxCalibTasks

\* Holders of stabilizer.lens_calibrator (RwLock, taken with write()): nobody,
\* the control thread, or the background task in slot t.
LockFree == 0
ControlThread == -1

IdleControl == [pc |-> "idle", op |-> "none", points |-> 0]

InitCalib ==
    calib = [lock |-> LockFree,
             tasks |-> [t \in CalibSlots |-> "idle"],
             n_started |-> 0,
             ctl |-> IdleControl]

\* `core::run_threaded(move || ...)` of start_autocalibrate.
SpawnCalibTask(c) ==
    [c EXCEPT !.tasks[c.n_started + 1] = "decoding", !.n_started = @ + 1]

\* Controller::start_autocalibrate on the control thread (max_points = 0 is
\* add_calibration_point). With max_points > 0 it takes `cal.write()` to reset
\* the calibrator before the task is started; the call waits there while a
\* background task holds the lock.
AutocalibrateCall(max_points) ==
    /\ calib.ctl.pc = "idle"
    /\ calib.n_started < MaxCalibTasks
    /\ IF max_points > 0 /\ calib.lock # LockFree
       THEN calib' = [calib EXCEPT !.ctl = [pc |-> "waiting", op |-> "start",
                                            points |-> max_points]]
       ELSE calib' = SpawnCalibTask(calib)
    /\ UNCHANGED <<rvars, cvars, ovars, lvars, gpu_init, integ, telem, feed, estimate, lenscal, keyframes, motion, sizes, exporter, autosync, importer, calmode, gyroload, locking, offmodel>>

\* The lock was released: the waiting start_autocalibrate goes on.
AutocalibrateResume ==
    /\ calib.ctl.pc = "waiting" /\ calib.ctl.op = "start"
    /\ calib.lock = LockFree
    /\ calib' = [SpawnCalibTask(calib) EXCEPT !.ctl = IdleControl]
    /\ UNCHANGED <<rvars, cvars, ovars, lvars, gpu_init, integ, telem, feed, estimate, lenscal, keyframes, motion, sizes, exporter, autosync, importer, calmode, gyroload, locking, offmodel>>

\* Controller::remove_calibration_point on the control thread: `cal.write()`,
\* then the point is removed and `cal.calibrate(true)` runs under the lock.
RemoveCalibrationPoint ==
    /\ calib.ctl.pc = "idle"
    /\ IF calib.lock # LockFree
       THEN calib' = [calib EXCEPT !.ctl = [pc |-> "waiting", op |-> "remove",
                                            points |-> 0]]
       ELSE calib' = [calib EXCEPT !.lock = ControlThread,
                                   !.ctl = [pc |-> "solving", op |-> "remove",
                                            points |-> 0]]
    /\ UNCHANGED <<rvars, cvars, ovars, lvars, gpu_init, integ, telem, feed, estimate, lenscal, keyframes, motion, sizes, exporter, autosync, importer, calmode, gyroload, locking, offmodel>>

\* The lock was released: the waiting remove_calibration_point takes it.
RemoveCalibrationPointResume ==
    /\ calib.ctl.pc = "waiting" /\ calib.ctl.op = "remove"
    /\ calib.lock = LockFree
    /\ calib' = [calib EXCEPT !.lock = ControlThread, !.ctl.pc = "solving"]
    /\ UNCHANGED <<rvars, cvars, ovars, lvars, gpu_init, integ, telem, feed, estimate, lenscal, keyframes, motion, sizes, exporter, autosync, importer, calmode, gyroload, locking, offmodel>>

\* calibrate(true) is over; the guard is dropped and the handler returns.
RemoveCalibrationPointEnd ==
    /\ calib.ctl.pc = "solving"
    /\ calib' = [calib EXCEPT !.lock = LockFree, !.ctl = IdleControl]
    /\ UNCHANGED <<rvars, cvars, ovars, lvars, gpu_init, integ, telem, feed, estimate, lenscal, keyframes, motion, sizes, exporter, autosync, importer, calmode, gyroload, locking, offmodel>>

\* on_frame of the task: `cal.write()`, then feed_frame under the lock.
CalibFeedFrame(t) ==
    /\ calib.tasks[t] = "decoding"
    /\ calib.lock = LockFree
    /\ calib' = [calib EXCEPT !.lock = t, !.tasks[t] = "feeding"]
    /\ UNCHANGED <<rvars, cvars, ovars, lvars, gpu_init, integ, telem, feed, estimate, lenscal, keyframes, motion, sizes, exporter, autosync, importer, calmode, gyroload, locking, offmodel>>

\* feed_frame returned and the guard is dropped.
CalibFeedFrameEnd(t) ==
    /\ calib.tasks[t] = "feeding"
    /\ calib' = [calib EXCEPT !.lock = LockFree, !.tasks[t] = "decoding"]
    /\ UNCHANGED <<rvars, cvars, ovars, lvars, gpu_init, integ, telem, feed, estimate, lenscal, keyframes, motion, sizes, exporter, autosync, importer, calmode, gyroload, locking, offmodel>>

\* start_decoder_only returned and the fed frames have been processed.
CalibDecoderReturns(t) ==
    /\ calib.tasks[t] = "decoding"
    /\ calib' = [calib EXCEPT !.tasks[t] = "decoded"]
    /\ UNCHANGED <<rvars, cvars, ovars, lvars, gpu_init, integ, telem, feed, estimate, lenscal, keyframes, motion, sizes, exporter, autosync, importer, calmode, gyroload, locking, offmodel>>

\* The task takes `cal.write()` and runs cal.calibrate(is_forced) under it.
CalibSolve(t) ==
    /\ calib.tasks[t] = "decoded"
    /\ calib.lock = LockFree
    /\ calib' = [calib EXCEPT !.lock = t, !.tasks[t] = "solving"]
    /\ UNCHANGED <<rvars, cvars, ovars, lvars, gpu_init, integ, telem, feed, estimate, lenscal, keyframes, motion, sizes, exporter, autosync, importer, calmode, gyroload, locking, offmodel>>

\* The task's closure ends and its guard is dropped.
CalibTaskEnd(t) ==
    /\ calib.tasks[t] = "solving"
    /\ calib' = [calib EXCEPT !.lock = LockFree, !.tasks[t] = "done"]
    /\ UNCHANGED <<rvars, cvars, ovars, lvars, gpu_init, integ, telem, feed, estimate, lenscal, keyframes, motion, sizes, exporter, autosync, importer, calmode, gyroload, locking, offmodel>>

\* ---------------------------------------- load_telemetry and its callbacks

\* Number of load_telemetry tasks started in one behaviour.
MaxTelemetryTasks == 1

TelemSlots == 1..MaxTelemetryTasks

\* What a task meets: is it the main video, does init_from_video_data succeed,
\* does load_gyro_data succeed, is the camera id known to the lens database.
TelemInputs == [is_main : BOOLEAN, init_ok : BOOLEAN, gyro_ok : BOOLEAN,
                lens_in_db : BOOLEAN]

IdleTelemTask == [pc |-> "idle", in |-> [is_main |-> FALSE, init_ok |-> FALSE,
                                         gyro_ok |-> FALSE, lens_in_db |-> FALSE],
                  has_md |-> FALSE, next |-> 1, applied |-> <<>>]

InitTelem ==
    telem = [tasks |-> [t \in TelemSlots |-> IdleTelemTask],
             queue |-> <<>>,
             n_started |-> 0]

\* A queued callback is posted: it joins the end of the control thread's queue.
Post(q, t, name) == Append(q, [task |-> t, cb |-> name])

\* Is load_gyro_data called at all: always for a separate telemetry file, for
\* the main video only when init_from_video_data succeeded.
GyroLoadAttempted(in) == ~in.is_main \/ in.init_ok

\* file_metadata is Some exactly when load_gyro_data was called and succeeded.
HasMetadata(in) == GyroLoadAttempted(in) /\ in.gyro_ok

\* Variant: a failed load_gyro_data is reported for the main video too.
GyroLoadErrorAlways(in) == GyroLoadAttempted(in) /\ ~in.gyro_ok

\* Does a failed load_gyro_data post `err`: not for the main video ("video
\* file may not contain the telemetry and it's ok"), yes for a separate file.
GyroLoadErrorReported(in) == ~in.is_main /\ ~in.gyro_ok

\* Does the first part of the task post `err`.
LoadPostsError(in) ==
    (in.is_main /\ ~in.init_ok) \/ GyroLoadErrorReported(in)

\* Variant: `finished` is posted before the lens and metadata callbacks.
ResultCallbacksFinishedFirst(in, has_md) ==
    <<"finished">>
    \o (IF in.is_main /\ in.lens_in_db THEN <<"load_lens">> ELSE <<>>)
    \o <<"reload_lens">>
    \o (IF has_md THEN <<"on_metadata">> ELSE <<>>)

\* The callbacks the second part of the task posts, in source order.
ResultCallbacks(in, has_md) ==
    (IF in.is_main /\ in.lens_in_db THEN <<"load_lens">> ELSE <<>>)
    \o <<"reload_lens">>
    \o (IF has_md THEN <<"on_metadata">> ELSE <<>>)
    \o <<"finished">>

\* Controller::load_telemetry with a video item of positive duration and fps:
\* the background task is started.
LoadTelemetryTask(in) ==
    /\ telem.n_started < MaxTelemetryTasks
    /\ telem' = [telem EXCEPT
            !.n_started = @ + 1,
            !.tasks[telem.n_started + 1] =
                [pc |-> "loading", in |-> in, has_md |-> FALSE, next |-> 1,
                 applied |-> <<>>]]
    /\ UNCHANGED <<rvars, cvars, ovars, lvars, gpu_init, integ, calib, feed, estimate, lenscal, keyframes, motion, sizes, exporter, autosync, importer, calmode, gyroload, locking, offmodel>>

\* First part of the task: init_from_video_data / load_gyro_data.
TelemLoad(t) ==
    /\ telem.tasks[t].pc = "loading"
    /\ LET in == telem.tasks[t].in IN
        telem' = [telem EXCEPT
            !.tasks[t].pc = "posting",
            !.tasks[t].has_md = HasMetadata(in),
            !.queue = IF LoadPostsError(in) THEN Post(@, t, "err") ELSE @]
    /\ UNCHANGED <<rvars, cvars, ovars, lvars, gpu_init, integ, calib, feed, estimate, lenscal, keyframes, motion, sizes, exporter, autosync, importer, calmode, gyroload, locking, offmodel>>

\* Second part: the next of load_lens, reload_lens, on_metadata and finished
\* is posted.
TelemPost(t) ==
    /\ telem.tasks[t].pc = "posting"
    /\ LET task == telem.tasks[t]
           cbs == ResultCallbacks(task.in, task.has_md)
       IN  telem' = [telem EXCEPT
                !.queue = Post(@, t, cbs[task.next]),
                !.tasks[t].next = @ + 1,
                !.tasks[t].pc = IF task.next = Len(cbs) THEN "done" ELSE "posting"]
    /\ UNCHANGED <<rvars, cvars, ovars, lvars, gpu_init, integ, calib, feed, estimate, lenscal, keyframes, motion, sizes, exporter, autosync, importer, calmode, gyroload, locking, offmodel>>

\* The control thread runs the callback at the head of its queue.
TelemDeliver ==
    /\ telem.queue # <<>>
    /\ LET e == Head(telem.queue) IN
        telem' = [telem EXCEPT !.queue = Tail(@),
                               !.tasks[e.task].applied = Append(@, e.cb)]
    /\ UNCHANGED <<rvars, cvars, ovars, lvars, gpu_init, integ, calib, feed, estimate, lenscal, keyframes, motion, sizes, exporter, autosync, importer, calmode, gyroload, locking, offmodel>>

\* ------------------------------------------- decoding and feeding frames

\* Number of frames in the requested ranges of one run.
MaxFrames == 3

EveryNthValues == {1, 2}
FeedKinds == {"autosync", "autocalibrate"}

IdleFeed == [pc |-> "idle", kind |-> "none", every_nth |-> 1, abs_frame_no |-> 0,
             frame_no |-> 0, result |-> "none", log |-> <<>>]

InitFeed == feed = IdleFeed

Event(name, frame) == [ev |-> name, frame |-> frame]

\* `abs_frame_no % every_nth_frame == 0`: the frame is one of those to feed.
Selected(abs_frame_no, every_nth) == abs_frame_no % every_nth = 0

\* Variant: a frame that cannot be scaled makes on_frame fail and the decoder
\* stop.
AbortOnScaleError(pc) == "returned"

\* on_frame answers Ok(()) after reporting a scale error: decoding goes on.
AfterScaleError(pc) == pc

\* Variant: the code after start_decoder_only does not wait for its return.
DecoderRunningOrReturned(pc) == pc \in {"decoding", "returned"}

\* finished_feeding_frames follows the return of start_decoder_only.
DecoderHasReturned(pc) == pc = "returned"

\* The background task of start_autosync / start_autocalibrate begins:
\* VideoProcessor::from_file either opens the file or the task reports the
\* error and ends.
FeedTaskStart(kind, every_nth, open_ok) ==
    /\ feed.pc = "idle"
    /\ feed' = IF open_ok
               THEN [IdleFeed EXCEPT !.pc = "decoding", !.kind = kind,
                                     !.every_nth = every_nth]
               ELSE [IdleFeed EXCEPT !.pc = "ended", !.kind = kind,
                                     !.every_nth = every_nth,
                                     !.result = "open_error",
                                     !.log = <<Event("open_err", 0)>>]
    /\ UNCHANGED <<rvars, cvars, ovars, lvars, gpu_init, integ, calib, telem, estimate, lenscal, keyframes, motion, sizes, exporter, autosync, importer, calmode, gyroload, locking, offmodel>>

\* on_frame for the next decoded frame: a selected frame is scaled and fed, or
\* the scale error is reported; the counters advance either way.
OnFrame(scale_ok) ==
    /\ feed.pc = "decoding"
    /\ feed.abs_frame_no < MaxFrames
    /\ IF Selected(feed.abs_frame_no, feed.every_nth)
       THEN feed' = [feed EXCEPT
                !.log = Append(@, Event(IF scale_ok THEN "feed" ELSE "scale_err",
                                        feed.abs_frame_no)),
                !.frame_no = @ + 1,
                !.abs_frame_no = @ + 1,
                !.pc = IF scale_ok THEN @ ELSE AfterScaleError(@)]
       ELSE feed' = [feed EXCEPT !.abs_frame_no = @ + 1]
    /\ UNCHANGED <<rvars, cvars, ovars, lvars, gpu_init, integ, calib, telem, estimate, lenscal, keyframes, motion, sizes, exporter, autosync, importer, calmode, gyroload, locking, offmodel>>

\* start_decoder_only returns: every range was decoded, the cancel flag was
\* seen, or the decoder failed (the error is reported).
DecoderStops(result) ==
    /\ feed.pc = "decoding"
    /\ result = "done" => feed.abs_frame_no = MaxFrames
    /\ result # "done" => feed.abs_frame_no < MaxFrames
    /\ feed' = [feed EXCEPT
            !.pc = "returned",
            !.result = result,
            !.log = IF result = "error"
                    THEN Append(Append(@, Event("decode_err", feed.abs_frame_no)),
                                Event("decoder_returned", feed.abs_frame_no))
                    ELSE Append(@, Event("decoder_returned", feed.abs_frame_no))]
    /\ UNCHANGED <<rvars, cvars, ovars, lvars, gpu_init, integ, calib, telem, estimate, lenscal, keyframes, motion, sizes, exporter, autosync, importer, calmode, gyroload, locking, offmodel>>

\* The code after start_decoder_only: `sync.finished_feeding_frames()` for a
\* sync run, `cal.calibrate(is_forced)` for a calibration run.
FinishedFeedingFrames ==
    /\ feed.pc \in {"decoding", "returned"}
    /\ DecoderHasReturned(feed.pc)
    /\ feed' = [feed EXCEPT
            !.pc = IF feed.kind = "autosync" THEN "fed" ELSE "ended",
            !.log = Append(@, Event(IF feed.kind = "autosync"
                                    THEN "finished_feeding_frames"
                                    ELSE "calibrate", feed.abs_frame_no))]
    /\ UNCHANGED <<rvars, cvars, ovars, lvars, gpu_init, integ, calib, telem, estimate, lenscal, keyframes, motion, sizes, exporter, autosync, importer, calmode, gyroload, locking, offmodel>>

\* The run hands its results to on_finished (offsets or orientation).
OnFinished ==
    /\ feed.pc = "fed"
    /\ feed' = [feed EXCEPT !.pc = "ended",
                            !.log = Append(@, Event("on_finished", feed.abs_frame_no))]
    /\ UNCHANGED <<rvars, cvars, ovars, lvars, gpu_init, integ, calib, telem, estimate, lenscal, keyframes, motion, sizes, exporter, autosync, importer, calmode, gyroload, locking, offmodel>>

\* The task is over; another run can be started.
FeedTaskEnd ==
    /\ feed.pc = "ended"
    /\ feed' = IdleFeed
    /\ UNCHANGED <<rvars, cvars, ovars, lvars, gpu_init, integ, calib, telem, estimate, lenscal, keyframes, motion, sizes, exporter, autosync, importer, calmode, gyroload, locking, offmodel>>

\* ------------------------------------------------ per-point offset estimate

\* Candidate offsets lie up to MaxCandidateSteps steps of 50 ms to either side
\* of the initial offset (taken as 0): the search window.
MaxCandidateSteps == 1

Candidates == {k * 50 : k \in (0 - MaxCandidateSteps)..MaxCandidateSteps}
CostValues == {1, 2, 3}

\* The alignment cost of every candidate of one sync point.
CostTables == [Candidates -> CostValues]

SyncPoints == 1..MaxPoints

Unresolved == [done |-> FALSE, offset |-> 0, cost |-> 0]
NoEstimate == [point |-> 0, table |-> [c \in Candidates |-> 1]]

InitEstimate ==
    estimate = [results |-> [p \in SyncPoints |-> Unresolved],
                last |-> NoEstimate]

MinCost(table) ==
    CHOOSE m \in {table[c] : c \in Candidates} :
        \A c \in Candidates : m <= table[c]

\* Variant: the first candidate evaluated is taken, whatever its cost.
FirstCandidate(table) == {Min(Candidates)}

\* The candidates a point can report: those of minimal cost.
BestCandidates(table) == {c \in Candidates : table[c] = MinCost(table)}

\* One sync point is resolved from its own cost table; points are resolved in
\* any order.
EstimatePoint(p, table) ==
    /\ ~estimate.results[p].done
    /\ \E o \in BestCandidates(table) :
          estimate' = [estimate EXCEPT
              !.results[p] = [done |-> TRUE, offset |-> o, cost |-> table[o]],
              !.last = [point |-> p, table |-> table]]
    /\ UNCHANGED <<rvars, cvars, ovars, lvars, gpu_init, integ, calib, telem, feed, lenscal, keyframes, motion, sizes, exporter, autosync, importer, calmode, gyroload, locking, offmodel>>

\* A new run: the results of the previous one are gone.
EstimateReset ==
    /\ \A p \in SyncPoints : estimate.results[p].done
    /\ estimate' = [results |-> [p \in SyncPoints |-> Unresolved],
                    last |-> NoEstimate]
    /\ UNCHANGED <<rvars, cvars, ovars, lvars, gpu_init, integ, calib, telem, feed, lenscal, keyframes, motion, sizes, exporter, autosync, importer, calmode, gyroload, locking, offmodel>>

\* ------------------------------------------ contents of the lens calibrator

\* Frames of the clip are 0..MaxCalFrame.
MaxCalFrame == 1

CalFrames == 0..MaxCalFrame

\* `let is_forced = custom_timestamp_ms > -0.5;`, in microseconds.
ForcedThresholdUs == -500

\* `vec![(custom_timestamp_ms - 1.0, custom_timestamp_ms + 1.0)]`, in
\* microseconds.
ForcedRangeUs == 1000

\* custom_timestamp_ms of an automatic run, as the caller passes it (-1 ms).
AutomaticRunUs == -1000

\* Duration of one frame (params.fps of 1000), so that the window of a forced
\* run spans the neighbouring frames as well.
FrameDurationUs == 1000

FrameTimestampUs(f) == f * FrameDurationUs

\* core::frame_at_timestamp(timestamp_us / 1000.0, fps), for timestamp_us >= 0.
FrameAtTimestamp(timestamp_us) ==
    (2 * timestamp_us + FrameDurationUs) \div (2 * FrameDurationUs)

CustomTimestamps == {AutomaticRunUs} \cup {FrameTimestampUs(f) : f \in CalFrames}

IsForced(custom_us) == custom_us > ForcedThresholdUs

\* The frames the decoder delivers for `ranges`: the trim range (the whole
\* clip here) or the window around the custom timestamp.
RangeFrames(custom_us) ==
    IF IsForced(custom_us)
    THEN {f \in CalFrames :
            /\ FrameTimestampUs(f) >= custom_us - ForcedRangeUs
            /\ FrameTimestampUs(f) <= custom_us + ForcedRangeUs}
    ELSE CalFrames

\* The Lens Model is a revision number modulo LensRevisions: every
\* set_from_calibrator makes a new revision.
LensRevisions == 2

\* LensCalibrator::new(): no points, no forced frames.
NewCalibrator ==
    [forced_frames |-> {}, image_points |-> {}, used_points |-> {},
     max_images |-> 0]

\* `None` in stabilizer.lens_calibrator.
NoCalibrator == [some |-> FALSE, cal |-> NewCalibrator]

IdleCalTask ==
    [pc |-> "idle", custom |-> AutomaticRunUs, every_nth |-> 1, next |-> 0,
     total_read |-> 0, n_fed |-> 0]

NoCalOp == [op |-> "none", arg |-> 0, points |-> 0, ok |-> FALSE]

InitLensCal ==
    lenscal = [process |-> "running",
               calibrator |-> NoCalibrator,
               lens |-> 0,
               task |-> IdleCalTask,
               last |-> NoCalOp]

\* What becomes of the process when a handler called by the control surface
\* panics: the unwinding reaches the foreign caller, which either aborts the
\* process or is left in an undefined state; control does not come back.
ControlPanicOutcomes == {"aborted", "unwinding"}

\* What becomes of the process when the closure of a background task panics:
\* the task is lost, or the pool's panic handler aborts the process.
TaskPanicOutcomes == {"running", "aborted"}

\* `lock.as_mut().unwrap()`: returns the calibrator only when there is one.
UnwrapSucceeds(option) == option.some

\* Controller::init_calibrator.
InitCalibrator ==
    /\ lenscal.process = "running"
    /\ lenscal' = [lenscal EXCEPT
                     !.calibrator = [some |-> TRUE, cal |-> NewCalibrator],
                     !.last = [NoCalOp EXCEPT !.op = "init", !.ok = TRUE]]
    /\ UNCHANGED <<rvars, cvars, ovars, lvars, gpu_init, integ, calib, telem, feed, estimate, keyframes, motion, sizes, exporter, autosync, importer, calmode, gyroload, locking, offmodel>>

\* Variant: the reset keeps no image point.
KeepNothing(cal) == {}

\* `saved`: the image points at forced frames.
SavedPoints(cal) == cal.image_points \cap cal.forced_frames

\* Controller::start_autocalibrate up to run_threaded: with max_points > 0
\* the calibrator is unwrapped and reset to the saved points; then the task is
\* started. add_calibration_point(timestamp_us) is the call with
\* max_points = 0, every_nth_frame = 1 and custom_us = timestamp_us.
StartAutocalibrateRun(max_points, every_nth_frame, custom_us) ==
    /\ lenscal.process = "running"
    /\ lenscal.task.pc = "idle"
    /\ IF max_points > 0 /\ ~UnwrapSucceeds(lenscal.calibrator)
       THEN \E outcome \in ControlPanicOutcomes :
              lenscal' = [lenscal EXCEPT
                            !.process = outcome,
                            !.last = [op |-> "start", arg |-> 0,
                                      points |-> max_points, ok |-> FALSE]]
       ELSE lenscal' = [lenscal EXCEPT
                          !.calibrator.cal =
                              IF max_points > 0
                              THEN [@ EXCEPT
                                      !.image_points =
                                          SavedPoints(lenscal.calibrator.cal),
                                      !.max_images = max_points]
                              ELSE @,
                          !.task = [IdleCalTask EXCEPT
                                      !.pc = "decoding",
                                      !.custom = custom_us,
                                      !.every_nth = every_nth_frame],
                          !.last = [op |-> "start", arg |-> 0,
                                    points |-> max_points, ok |-> TRUE]]
    /\ UNCHANGED <<rvars, cvars, ovars, lvars, gpu_init, integ, calib, telem, feed, estimate, keyframes, motion, sizes, exporter, autosync, importer, calmode, gyroload, locking, offmodel>>

\* LensCalibrator::feed_frame: a frame in which the pattern was detected
\* becomes the image point of that frame, replacing an earlier one.
FeedFrame(cal, frame, detected) ==
    IF detected THEN [cal EXCEPT !.image_points = @ \cup {frame}] ELSE cal

\* A panic in the closure of the task.
CalTaskPanics ==
    \E outcome \in TaskPanicOutcomes :
        lenscal' = [lenscal EXCEPT
                      !.process = outcome,
                      !.task = [@ EXCEPT !.pc = "panicked"],
                      !.last = [NoCalOp EXCEPT !.op = "task"]]

\* on_frame of the task for the decoded frame f of the ranges.
CalOnFrame(f, scale_ok, detected) ==
    LET t == lenscal.task
        is_forced == IsForced(t.custom)
        frame == FrameAtTimestamp(FrameTimestampUs(f))
        skip == (is_forced /\ t.total_read > 0) \/ frame % t.every_nth # 0
    IN
    /\ lenscal.process = "running"
    /\ t.pc = "decoding"
    /\ f \in RangeFrames(t.custom) /\ f >= t.next
    /\ IF skip
       THEN lenscal' = [lenscal EXCEPT
                          !.task.next = f + 1,
                          !.last = [NoCalOp EXCEPT !.op = "task"]]
       ELSE IF ~scale_ok
       THEN lenscal' = [lenscal EXCEPT
                          !.task.next = f + 1,
                          !.last = [NoCalOp EXCEPT !.op = "task"]]
       ELSE IF ~UnwrapSucceeds(lenscal.calibrator)
       THEN CalTaskPanics
       ELSE lenscal' = [lenscal EXCEPT
                          !.calibrator.cal =
                              FeedFrame(
                                  [@ EXCEPT !.forced_frames =
                                      IF is_forced THEN @ \cup {frame} ELSE @],
                                  frame, detected),
                          !.task.next = f + 1,
                          !.task.total_read = @ + 1,
                          !.task.n_fed = @ + 1,
                          !.last = [NoCalOp EXCEPT !.op = "task"]]
    /\ UNCHANGED <<rvars, cvars, ovars, lvars, gpu_init, integ, calib, telem, feed, estimate, keyframes, motion, sizes, exporter, autosync, importer, calmode, gyroload, locking, offmodel>>

\* start_decoder_only returned (end of the ranges, cancel or decoder error),
\* or VideoProcessor::from_file failed, and the fed frames are processed.
CalDecodingOver ==
    /\ lenscal.process = "running"
    /\ lenscal.task.pc = "decoding"
    /\ lenscal' = [lenscal EXCEPT !.task.pc = "decoded",
                                  !.last = [NoCalOp EXCEPT !.op = "task"]]
    /\ UNCHANGED <<rvars, cvars, ovars, lvars, gpu_init, integ, calib, telem, feed, estimate, keyframes, motion, sizes, exporter, autosync, importer, calmode, gyroload, locking, offmodel>>

\* The points LensCalibrator::calibrate(is_forced) may solve for: a forced
\* run adds the detected forced frames to the used points, an automatic run
\* picks at most max_images detections next to the detected forced frames.
CalibrateSelections(cal, is_forced) ==
    LET pinned == cal.forced_frames \cap cal.image_points IN
    IF is_forced
    THEN {cal.used_points \cup pinned}
    ELSE {pinned \cup s : s \in {x \in SUBSET (cal.image_points \ pinned) :
              Cardinality(x) =
                  IF Cardinality(cal.image_points \ pinned) < cal.max_images
                  THEN Cardinality(cal.image_points \ pinned)
                  ELSE cal.max_images}}

\* The solver cannot succeed without a point.
SolverMaySucceed(used) == used # {}

\* `if cal.calibrate(..).is_ok() { lens.write().set_from_calibrator(cal) }`.
SetFromCalibrator(lens, used, solver_ok) ==
    IF solver_ok THEN (lens + 1) % LensRevisions ELSE lens

\* End of the task: the calibrator is unwrapped and solved, and the Lens Model
\* is set from it when the solver succeeded.
CalTaskSolve(solver_ok) ==
    LET cal == lenscal.calibrator.cal
        is_forced == IsForced(lenscal.task.custom)
    IN
    /\ lenscal.process = "running"
    /\ lenscal.task.pc = "decoded"
    /\ IF ~UnwrapSucceeds(lenscal.calibrator)
       THEN CalTaskPanics
       ELSE \E used \in CalibrateSelections(cal, is_forced) :
              /\ solver_ok => SolverMaySucceed(used)
              /\ lenscal' = [lenscal EXCEPT
                               !.calibrator.cal.used_points = used,
                               !.lens = SetFromCalibrator(@, used, solver_ok),
                               !.task = IdleCalTask,
                               !.last = [NoCalOp EXCEPT !.op = "task"]]
    /\ UNCHANGED <<rvars, cvars, ovars, lvars, gpu_init, integ, calib, telem, feed, estimate, keyframes, motion, sizes, exporter, autosync, importer, calmode, gyroload, locking, offmodel>>

\* The first used point (in frame order) with the timestamp, or none.
FrameToRemove(used_points, timestamp_us) ==
    LET hits == {f \in used_points : FrameTimestampUs(f) = timestamp_us} IN
    IF hits = {} THEN {}
    ELSE {CHOOSE f \in hits : \A g \in hits : f <= g}

\* Variant: the point stays a forced frame.
RemoveFromUsedOnly(cal, gone) == [cal EXCEPT !.used_points = @ \ gone]

\* `cal.forced_frames.remove(&f); cal.used_points.remove(&f);`
RemovePoint(cal, gone) ==
    [cal EXCEPT !.forced_frames = @ \ gone, !.used_points = @ \ gone]

\* Controller::remove_calibration_point.
RemoveCalibrationPointAt(timestamp_us, solver_ok) ==
    /\ lenscal.process = "running"
    /\ IF ~UnwrapSucceeds(lenscal.calibrator)
       THEN \E outcome \in ControlPanicOutcomes :
              lenscal' = [lenscal EXCEPT
                            !.process = outcome,
                            !.last = [op |-> "remove", arg |-> timestamp_us,
                                      points |-> 0, ok |-> FALSE]]
       ELSE LET gone == FrameToRemove(lenscal.calibrator.cal.used_points,
                                      timestamp_us)
                cal == RemovePoint(lenscal.calibrator.cal, gone)
            IN \E used \in CalibrateSelections(cal, TRUE) :
                 /\ solver_ok => SolverMaySucceed(used)
                 /\ lenscal' = [lenscal EXCEPT
                                  !.calibrator.cal =
                                      [cal EXCEPT !.used_points = used],
                                  !.lens = SetFromCalibrator(@, used, solver_ok),
                                  !.last = [op |-> "remove",
                                            arg |-> timestamp_us,
                                            points |-> Cardinality(gone),
                                            ok |-> solver_ok]]
    /\ UNCHANGED <<rvars, cvars, ovars, lvars, gpu_init, integ, calib, telem, feed, estimate, keyframes, motion, sizes, exporter, autosync, importer, calmode, gyroload, locking, offmodel>>

\* ---------------------------------------------------------- keyframe sampling

\* Keyframe timestamps are 0..MaxKeyTime, values 0..MaxKeyValue, and a type
\* holds at most MaxKeyframes keyframes.
MaxKeyTime == 2
MaxKeyValue == 1
MaxKeyframes == 2

KeyTimes == 0..MaxKeyTime
KeyValues == 0..MaxKeyValue

\* Easing kinds accepted by Easing::from_str.
Easings == {"NoEasing", "EaseIn", "EaseOut", "EaseInOut"}

\* Sampled values are fixed-point numbers with EaseScale units per 1.
EaseScale == 144

\* QJSValue::default(): the answer when there is nothing to sample.
Undefined == -1

NoSample == [op |-> "none", typ_ok |-> FALSE, timestamp |-> 0, result |-> Undefined]

InitKeyframes == keyframes = [keys |-> << >>, last |-> NoSample]

\* The timestamps that carry a keyframe.
KeyedTimes(keys) == DOMAIN keys

\* The share of the way from one keyframe to the next that is covered at
\* position p of n, in units of 1/EaseScale, for each easing kind.
Ease(kind, p, n) ==
    CASE kind = "NoEasing"  -> (EaseScale * p) \div n
      [] kind = "EaseIn"    -> (EaseScale * p * p) \div (n * n)
      [] kind = "EaseOut"   -> EaseScale - (EaseScale * (n - p) * (n - p)) \div (n * n)
      [] kind = "EaseInOut" ->
            IF 2 * p < n
            THEN (2 * EaseScale * p * p) \div (n * n)
            ELSE EaseScale - (2 * EaseScale * (n - p) * (n - p)) \div (n * n)

\* KeyframeManager::value_at_video_timestamp for one type: nothing without
\* keyframes, the nearest keyframe's value outside of them, and between two
\* keyframes the interpolation with the easing of the preceding one.
ValueAtVideoTimestamp(keys, timestamp) ==
    LET times == KeyedTimes(keys)
        before == {t \in times : t <= timestamp}
        after == {t \in times : t > timestamp}
        t0 == CHOOSE t \in before : \A u \in before : u <= t
        t1 == CHOOSE t \in after : \A u \in after : t <= u
    IN IF times = {} THEN Undefined
       ELSE IF before = {} THEN keys[t1].value * EaseScale
       ELSE IF after = {} THEN keys[t0].value * EaseScale
       ELSE keys[t0].value * EaseScale
            + (keys[t1].value - keys[t0].value)
              * Ease(keys[t0].easing, timestamp - t0, t1 - t0)

\* Variant: the method answers the default value whatever was sampled.
AlwaysDefault(typ_ok, sampled) == Undefined

\* `if let Ok(typ) = KeyframeType::from_str(&typ) { if let Some(v) = .. {
\* return QJSValue::from(v) } } QJSValue::default()`.
SampleResult(typ_ok, sampled) == IF typ_ok THEN sampled ELSE Undefined

\* Controller::set_keyframe for a type that parses: the keyframe at the
\* timestamp is created (without easing) or gets the value.
SetKeyframe(timestamp_us, value) ==
    /\ timestamp_us \in KeyedTimes(keyframes.keys)
       \/ Cardinality(KeyedTimes(keyframes.keys)) < MaxKeyframes
    /\ keyframes' =
         [keys |-> [t \in KeyedTimes(keyframes.keys) \cup {timestamp_us} |->
                      IF t # timestamp_us THEN keyframes.keys[t]
                      ELSE [value |-> value,
                            easing |-> IF t \in KeyedTimes(keyframes.keys)
                                       THEN keyframes.keys[t].easing
                                       ELSE "NoEasing"]],
          last |-> NoSample]
    /\ UNCHANGED <<rvars, cvars, ovars, lvars, gpu_init, integ, calib, telem, feed, estimate, lenscal, motion, sizes, exporter, autosync, importer, calmode, gyroload, locking, offmodel>>

\* Controller::set_keyframe_easing for a type and an easing that parse.
SetKeyframeEasing(timestamp_us, easing) ==
    /\ timestamp_us \in KeyedTimes(keyframes.keys)
    /\ keyframes' = [keys |-> [keyframes.keys EXCEPT ![timestamp_us].easing = easing],
                     last |-> NoSample]
    /\ UNCHANGED <<rvars, cvars, ovars, lvars, gpu_init, integ, calib, telem, feed, estimate, lenscal, motion, sizes, exporter, autosync, importer, calmode, gyroload, locking, offmodel>>

\* Controller::remove_keyframe for a type that parses.
RemoveKeyframe(timestamp_us) ==
    /\ timestamp_us \in KeyedTimes(keyframes.keys)
    /\ keyframes' = [keys |-> [t \in KeyedTimes(keyframes.keys) \ {timestamp_us} |->
                                 keyframes.keys[t]],
                     last |-> NoSample]
    /\ UNCHANGED <<rvars, cvars, ovars, lvars, gpu_init, integ, calib, telem, feed, estimate, lenscal, motion, sizes, exporter, autosync, importer, calmode, gyroload, locking, offmodel>>

\* Controller::clear_keyframes_type for a type that parses.
ClearKeyframesType ==
    /\ KeyedTimes(keyframes.keys) # {}
    /\ keyframes' = [keys |-> << >>, last |-> NoSample]
    /\ UNCHANGED <<rvars, cvars, ovars, lvars, gpu_init, integ, calib, telem, feed, estimate, lenscal, motion, sizes, exporter, autosync, importer, calmode, gyroload, locking, offmodel>>

\* Controller::keyframe_value_at_video_timestamp; typ_ok tells whether the
\* type name parses.
KeyframeValueAtVideoTimestamp(typ_ok, timestamp_ms) ==
    /\ keyframes' =
         [keyframes EXCEPT
            !.last = [op |-> "sample", typ_ok |-> typ_ok,
                      timestamp |-> timestamp_ms,
                      result |-> SampleResult(typ_ok,
                                     ValueAtVideoTimestamp(keyframes.keys,
                                                           timestamp_ms))]]
    /\ UNCHANGED <<rvars, cvars, ovars, lvars, gpu_init, integ, calib, telem, feed, estimate, lenscal, motion, sizes, exporter, autosync, importer, calmode, gyroload, locking, offmodel>>

\* ------------------------------------------------- integration of the motion

\* Bias and rotation settings are 0..MaxBias and 0..MaxRotation; orientations
\* are numbers modulo OrientationModulus.
MaxBias == 1
MaxRotation == 1

OrientationModulus == 5

\* The raw sample sequences a loaded file may hold.
RawSequences == {<<1, 2>>, <<2, 0, 1>>}

NoRun == [valid |-> FALSE, raw |-> << >>, method |-> 0, bias |-> 0,
          rotation |-> 0, quaternions |-> << >>]

InitMotion ==
    motion = [raw |-> << >>, method |-> 0, bias |-> 0, rotation |-> 0,
              quaternions |-> << >>, other |-> 0, seen |-> NoRun]

\* One integration step of a method: the orientation after a sample, from the
\* orientation before it and the corrected rate.
IntegrationStep(method, q, rate) ==
    (q + (method + 1) * rate) % OrientationModulus

RECURSIVE IntegrateFrom(_, _, _, _, _)
\* The orientations of the samples, starting from the orientation q.
IntegrateFrom(q, raw, method, bias, rotation) ==
    IF raw = << >> THEN << >>
    ELSE LET next == IntegrationStep(method, q, Head(raw) + bias + rotation)
         IN <<next>> \o IntegrateFrom(next, Tail(raw), method, bias, rotation)

\* Variant: the integration goes on from the last orientation it produced
\* before.
IntegrateIncrementally(previous, raw, method, bias, rotation) ==
    IntegrateFrom(IF previous = << >> THEN 0 ELSE previous[Len(previous)],
                  raw, method, bias, rotation)

\* GyroSource::integrate: the orientations are computed from the raw samples,
\* the method, the bias and the rotation, starting from the identity; the
\* orientations of the previous run are not read.
Integrate(previous, raw, method, bias, rotation) ==
    IntegrateFrom(0, raw, method, bias, rotation)

\* The gyro source after integrate(), with the run remembered or not.
Integrated(m, remember) ==
    LET q == Integrate(m.quaternions, m.raw, m.method, m.bias, m.rotation) IN
    [m EXCEPT !.quaternions = q,
              !.seen = IF remember
                       THEN [valid |-> TRUE, raw |-> m.raw, method |-> m.method,
                             bias |-> m.bias, rotation |-> m.rotation,
                             quaternions |-> q]
                       ELSE @]

\* The load_telemetry task after a successful load: the raw samples of the
\* file replace the ones of the store and are integrated.
LoadGyroData(raw, remember) ==
    /\ motion' = Integrated([motion EXCEPT !.raw = raw], remember)
    /\ UNCHANGED <<rvars, cvars, ovars, lvars, gpu_init, integ, calib, telem, feed, estimate, lenscal, keyframes, sizes, exporter, autosync, importer, calmode, gyroload, locking, offmodel>>

\* Controller::set_integration_method with its background task, for an index
\* that differs from the stored method: `gyro.integration_method = index;
\* gyro.integrate();`.
IntegrateWithMethod(index, remember) ==
    /\ ~MethodUnchanged(motion.method, index)
    /\ motion' = Integrated([motion EXCEPT !.method = index], remember)
    /\ UNCHANGED <<rvars, cvars, ovars, lvars, gpu_init, integ, calib, telem, feed, estimate, lenscal, keyframes, sizes, exporter, autosync, importer, calmode, gyroload, locking, offmodel>>

\* Controller::set_imu_bias: the bias is stored and the motion is integrated
\* again.
SetImuBias(bias, remember) ==
    /\ motion' = Integrated([motion EXCEPT !.bias = bias], remember)
    /\ UNCHANGED <<rvars, cvars, ovars, lvars, gpu_init, integ, calib, telem, feed, estimate, lenscal, keyframes, sizes, exporter, autosync, importer, calmode, gyroload, locking, offmodel>>

\* Controller::set_imu_rotation: the rotation is stored and the motion is
\* integrated again.
SetImuRotation(rotation, remember) ==
    /\ motion' = Integrated([motion EXCEPT !.rotation = rotation], remember)
    /\ UNCHANGED <<rvars, cvars, ovars, lvars, gpu_init, integ, calib, telem, feed, estimate, lenscal, keyframes, sizes, exporter, autosync, importer, calmode, gyroload, locking, offmodel>>

\* Controller::recompute_gyro: integration with the inputs as they are.
RecomputeGyro(remember) ==
    /\ motion' = Integrated(motion, remember)
    /\ UNCHANGED <<rvars, cvars, ovars, lvars, gpu_init, integ, calib, telem, feed, estimate, lenscal, keyframes, sizes, exporter, autosync, importer, calmode, gyroload, locking, offmodel>>

\* An operation on the gyro source that is not an input of the integration
\* (an offset edit): the orientations stay as they are.
OtherMotionEdit ==
    /\ motion' = [motion EXCEPT !.other = 1 - @]
    /\ UNCHANGED <<rvars, cvars, ovars, lvars, gpu_init, integ, calib, telem, feed, estimate, lenscal, keyframes, sizes, exporter, autosync, importer, calmode, gyroload, locking, offmodel>>

\* --------------------------------------------------- resizing the output

\* Widths and heights are 0..MaxSide.
MaxSide == 2

Sides == 0..MaxSide

NoResize ==
    [op |-> "none", w |-> 0, h |-> 0, before |-> <<0, 0>>, changed |-> FALSE,
     size_set |-> FALSE, undistortion |-> FALSE, recompute |-> FALSE]

InitSizes == sizes = [size |-> <<0, 0>>, output_size |-> <<0, 0>>, last |-> NoResize]

\* StabilizationManager::set_output_size: a size with both sides positive that
\* differs from the stored one is stored, and the answer tells whether it was.
OutputSizeChanged(output_size, w, h) ==
    w > 0 /\ h > 0 /\ output_size # <<w, h>>

\* Controller::set_output_size: when the stabilizer reports a change, the
\* undistortion data is recomputed and a recompute is requested.
SetOutputSize(w, h) ==
    LET changed == OutputSizeChanged(sizes.output_size, w, h) IN
    /\ sizes' = [sizes EXCEPT
                   !.output_size = IF changed THEN <<w, h>> ELSE @,
                   !.last = [op |-> "set_output_size", w |-> w, h |-> h,
                             before |-> sizes.output_size,
                             changed |-> changed,
                             size_set |-> changed,
                             undistortion |-> changed,
                             recompute |-> changed]]
    /\ UNCHANGED <<rvars, cvars, ovars, lvars, gpu_init, integ, calib, telem, feed, estimate, lenscal, keyframes, motion, exporter, autosync, importer, calmode, gyroload, locking, offmodel>>

\* Variant: the handler does not compare the sizes.
AlwaysDiffers(current_size, width, height) == TRUE

\* `current_size.0 != width as usize || current_size.1 != height as usize`.
SizeDiffers(current_size, width, height) ==
    current_size[1] # width \/ current_size[2] # height

\* The onResize handler that init_player gives the player: a size that
\* differs from the current one is set and a recompute is started.
OnResize(width, height) ==
    LET differs == SizeDiffers(sizes.size, width, height) IN
    /\ sizes' = [sizes EXCEPT
                   !.size = IF differs THEN <<width, height>> ELSE @,
                   !.last = [op |-> "on_resize", w |-> width, h |-> height,
                             before |-> sizes.size,
                             changed |-> FALSE,
                             size_set |-> differs,
                             undistortion |-> FALSE,
                             recompute |-> differs]]
    /\ UNCHANGED <<rvars, cvars, ovars, lvars, gpu_init, integ, calib, telem, feed, estimate, lenscal, keyframes, motion, exporter, autosync, importer, calmode, gyroload, locking, offmodel>>

\* ------------------------------------------------- exporting the project file

\* Paths are 0..MaxPath; path 0 is the video path with the extension
\* "gyroflow", the others are override locations.
MaxPath == 2

ExportPaths == 0..MaxPath

\* override_location of a call: empty, or one of the other paths.
NoOverride == -1

\* What StabilizationManager::export_gyroflow_file answers.
ExportResults == {"Ok", "PermissionDenied", "OtherError"}

NoExport ==
    [op |-> "none", path |-> 0, overwrite |-> FALSE, existed |-> FALSE,
     result |-> "none", events |-> << >>, wrote |-> FALSE]

InitExporter == exporter = [files |-> {}, last |-> NoExport]

\* `if override_location.is_empty() { video_path.with_extension("gyroflow") }
\* else { override_location }`.
GfPath(override_location) ==
    IF override_location = NoOverride THEN 0 ELSE override_location

\* Variant: every result of the export is reported as a success.
AlwaysMessage(result) == "message"

\* The event of each arm of the match on the export's result.
ExportEvent(result) ==
    CASE result = "Ok" -> "message"
      [] result = "PermissionDenied" -> "request_location"
      [] OTHER -> "error"

\* Controller::export_gyroflow_file: an existing target that must not be
\* overwritten is reported and left alone, else the file is exported and the
\* result is reported.
ExportGyroflowFile(override_location, overwrite, result) ==
    LET gf_path == GfPath(override_location)
        exists == gf_path \in exporter.files
    IN
    /\ IF ~overwrite /\ exists
       THEN exporter' = [exporter EXCEPT
                           !.last = [op |-> "export", path |-> gf_path,
                                     overwrite |-> overwrite, existed |-> exists,
                                     result |-> "none",
                                     events |-> <<"gyroflow_exists">>,
                                     wrote |-> FALSE]]
       ELSE exporter' = [files |-> IF result = "Ok"
                                   THEN exporter.files \cup {gf_path}
                                   ELSE exporter.files,
                         last |-> [op |-> "export", path |-> gf_path,
                                   overwrite |-> overwrite, existed |-> exists,
                                   result |-> result,
                                   events |-> <<ExportEvent(result)>>,
                                   wrote |-> result = "Ok"]]
    /\ UNCHANGED <<rvars, cvars, ovars, lvars, gpu_init, integ, calib, telem, feed, estimate, lenscal, keyframes, motion, sizes, autosync, importer, calmode, gyroload, locking, offmodel>>

\* Somebody else removes a file.
FileRemoved(path) ==
    /\ path \in exporter.files
    /\ exporter' = [files |-> exporter.files \ {path}, last |-> NoExport]
    /\ UNCHANGED <<rvars, cvars, ovars, lvars, gpu_init, integ, calib, telem, feed, estimate, lenscal, keyframes, motion, sizes, autosync, importer, calmode, gyroload, locking, offmodel>>

\* ------------------------------------------------- starting a sync and its task

\* Calls of start_autosync in one behaviour, frames the decoder delivers in
\* one run, and the largest every_nth_frame a caller gives.
MaxSyncCalls == 2
MaxSyncFrames == 3
MaxEveryNth == 2

\* The offset map is a revision number modulo OffsetRevisions: every
\* set_offsets callback makes a new revision.
OffsetRevisions == 2

StartOutcomes == {"parse_error", "invalid_parameters", "ok"}

IdleSyncTask ==
    [pc |-> "idle", given |-> 1, stride |-> 1, abs_frame_no |-> 0,
     frame_no |-> 0, scaled |-> << >>, fed |-> << >>, failed |-> << >>]

NoStart == [op |-> "none", outcome |-> "none", every_nth |-> 0]

InitAutosync ==
    autosync = [sync_in_progress |-> FALSE, queue |-> << >>,
                task |-> IdleSyncTask, n_calls |-> 0, offset_map |-> 0,
                emitted |-> "none", last |-> NoStart]

\* `sync_params.every_nth_frame = sync_params.every_nth_frame.max(1)`.
Stride(every_nth_frame) == IF every_nth_frame < 1 THEN 1 ELSE every_nth_frame

\* Variant: nothing is posted when from_manager rejects the parameters.
PostNothing(queue) == queue

\* `err(("An error occured: %1", "Invalid parameters"))` in the else arm.
PostInvalidParameters(queue) == Append(queue, "err")

\* Controller::start_autosync on the control thread: a sync_params JSON that
\* does not parse is reported at once; parameters that from_manager rejects
\* are reported through the queued err callback; else the task is started.
StartAutosyncCall(outcome, every_nth_frame) ==
    /\ autosync.n_calls < MaxSyncCalls
    /\ outcome = "ok" => autosync.task.pc # "decoding"
    /\ autosync' =
         CASE outcome = "parse_error" ->
                [autosync EXCEPT
                   !.sync_in_progress = FALSE,
                   !.emitted = "error",
                   !.n_calls = @ + 1,
                   !.last = [op |-> "start", outcome |-> outcome,
                             every_nth |-> every_nth_frame]]
           [] outcome = "invalid_parameters" ->
                [autosync EXCEPT
                   !.sync_in_progress = TRUE,
                   !.emitted = "sync_progress",
                   !.queue = PostInvalidParameters(@),
                   !.n_calls = @ + 1,
                   !.last = [op |-> "start", outcome |-> outcome,
                             every_nth |-> every_nth_frame]]
           [] OTHER ->
                [autosync EXCEPT
                   !.sync_in_progress = TRUE,
                   !.emitted = "sync_progress",
                   !.task = [IdleSyncTask EXCEPT
                               !.pc = "decoding",
                               !.given = every_nth_frame,
                               !.stride = Stride(every_nth_frame)],
                   !.n_calls = @ + 1,
                   !.last = [op |-> "start", outcome |-> outcome,
                             every_nth |-> every_nth_frame]]
    /\ UNCHANGED <<rvars, cvars, ovars, lvars, gpu_init, integ, calib, telem, feed, estimate, lenscal, keyframes, motion, sizes, exporter, importer, calmode, gyroload, locking, offmodel>>

\* Variant: the frame number advances only when the frame was fed.
CountFedFramesOnly(frame_no, scale_ok) ==
    IF scale_ok THEN frame_no + 1 ELSE frame_no

\* `frame_no += 1;` after the match on the result of the scaler.
NextFrameNo(frame_no, scale_ok) == frame_no + 1

\* on_frame of the task for the next decoded frame.
SyncOnFrame(scale_ok) ==
    LET t == autosync.task IN
    /\ t.pc = "decoding"
    /\ t.abs_frame_no < MaxSyncFrames
    /\ IF t.abs_frame_no % t.stride = 0
       THEN autosync' =
              [autosync EXCEPT
                 !.task = [t EXCEPT
                             !.scaled = Append(@, t.abs_frame_no),
                             !.fed = IF scale_ok THEN Append(@, t.frame_no) ELSE @,
                             !.failed = IF scale_ok THEN @ ELSE Append(@, t.frame_no),
                             !.frame_no = NextFrameNo(@, scale_ok),
                             !.abs_frame_no = @ + 1],
                 !.queue = IF scale_ok THEN @ ELSE Append(@, "err"),
                 !.last = NoStart]
       ELSE autosync' = [autosync EXCEPT !.task.abs_frame_no = @ + 1,
                                         !.last = NoStart]
    /\ UNCHANGED <<rvars, cvars, ovars, lvars, gpu_init, integ, calib, telem, feed, estimate, lenscal, keyframes, motion, sizes, exporter, importer, calmode, gyroload, locking, offmodel>>

\* start_decoder_only returns, with an error or without, and
\* finished_feeding_frames makes the run post its last progress and its
\* offsets.
SyncDecoderReturns(result) ==
    /\ autosync.task.pc = "decoding"
    /\ autosync' =
         [autosync EXCEPT
            !.task.pc = "finished",
            !.queue = (IF result = "error" THEN Append(@, "err") ELSE @)
                      \o <<"progress", "set_offsets">>,
            !.last = NoStart]
    /\ UNCHANGED <<rvars, cvars, ovars, lvars, gpu_init, integ, calib, telem, feed, estimate, lenscal, keyframes, motion, sizes, exporter, importer, calmode, gyroload, locking, offmodel>>

\* The control thread runs the next queued callback: err emits the error and
\* clears sync_in_progress; the last progress clears sync_in_progress;
\* set_offsets writes the offsets.
SyncDeliver ==
    /\ autosync.queue # << >>
    /\ LET name == Head(autosync.queue) IN
       autosync' =
         [autosync EXCEPT
            !.queue = Tail(@),
            !.sync_in_progress = IF name \in {"err", "progress"} THEN FALSE ELSE @,
            !.offset_map = IF name = "set_offsets"
                           THEN (@ + 1) % OffsetRevisions ELSE @,
            !.emitted = CASE name = "err" -> "error"
                          [] name = "progress" -> "sync_progress"
                          [] OTHER -> "offsets",
            !.last = [NoStart EXCEPT !.op = "deliver", !.outcome = name]]
    /\ UNCHANGED <<rvars, cvars, ovars, lvars, gpu_init, integ, calib, telem, feed, estimate, lenscal, keyframes, motion, sizes, exporter, importer, calmode, gyroload, locking, offmodel>>

\* ------------------------------------------------- importing a project file

\* Calls of import_gyroflow_file / import_gyroflow_data in one behaviour.
MaxImports == 2

\* What the import hands to `finished`: an I/O or parse error, or a JSON value
\* that is an object (with or without the key calibration_data) or is not.
ImportResults ==
    {[ok |-> FALSE, is_object |-> FALSE, calibration_data |-> FALSE],
     [ok |-> TRUE, is_object |-> FALSE, calibration_data |-> FALSE],
     [ok |-> TRUE, is_object |-> TRUE, calibration_data |-> FALSE],
     [ok |-> TRUE, is_object |-> TRUE, calibration_data |-> TRUE]}

NoImport ==
    [op |-> "none",
     result |-> [ok |-> FALSE, is_object |-> FALSE, calibration_data |-> FALSE],
     lens_loaded_before |-> FALSE, events |-> << >>, returned |-> "none",
     recompute |-> FALSE]

InitImporter ==
    importer = [lens_loaded |-> FALSE, loading |-> FALSE, n_calls |-> 0,
                running |-> 0, queue |-> << >>, process |-> "running",
                last |-> NoImport]

\* Controller::import_gyroflow_file / import_gyroflow_data on the control
\* thread: the import task is started.
ImportStarted ==
    /\ importer.process = "running"
    /\ importer.n_calls < MaxImports
    /\ importer' = [importer EXCEPT !.n_calls = @ + 1, !.running = @ + 1,
                                    !.last = NoImport]
    /\ UNCHANGED <<rvars, cvars, ovars, lvars, gpu_init, integ, calib, telem, feed, estimate, lenscal, keyframes, motion, sizes, exporter, autosync, calmode, gyroload, locking, offmodel>>

\* The import task: `finished(stab.import_gyroflow_file(..))` posts the
\* result of the import.
ImportTaskEnds(result) ==
    /\ importer.process = "running"
    /\ importer.running > 0
    /\ importer' = [importer EXCEPT !.running = @ - 1,
                                    !.queue = Append(@, result),
                                    !.last = NoImport]
    /\ UNCHANGED <<rvars, cvars, ovars, lvars, gpu_init, integ, calib, telem, feed, estimate, lenscal, keyframes, motion, sizes, exporter, autosync, calmode, gyroload, locking, offmodel>>

\* Variant: every imported object is taken to hold a lens profile.
AlwaysHasCalibrationData(result) == TRUE

\* `thin_obj.as_object().unwrap().contains_key("calibration_data")`.
HasCalibrationData(result) == result.calibration_data

\* The signals of import_gyroflow_internal, in the order they are emitted.
ImportEvents(result) ==
    IF ~result.ok THEN <<"error">>
    ELSE (IF HasCalibrationData(result)
          THEN <<"lens_changed", "lens_profile_loaded">> ELSE << >>)
         \o <<"request_recompute", "chart_data_changed", "keyframes_changed">>

\* Controller::import_gyroflow_internal, called by the queued `finished`
\* callback with the result of the import: after it the callback emits
\* gyroflow_file_loaded with the object that was returned.
ImportGyroflowInternal ==
    /\ importer.process = "running"
    /\ importer.queue # << >>
    /\ LET result == Head(importer.queue) IN
       IF result.ok /\ ~result.is_object
       THEN \E outcome \in ControlPanicOutcomes :
              importer' = [importer EXCEPT
                             !.queue = Tail(@),
                             !.loading = FALSE,
                             !.process = outcome,
                             !.last = [NoImport EXCEPT !.op = "import",
                                                       !.result = result]]
       ELSE importer' =
              [importer EXCEPT
                 !.queue = Tail(@),
                 !.loading = FALSE,
                 !.lens_loaded = IF result.ok /\ HasCalibrationData(result)
                                 THEN TRUE ELSE @,
                 !.last = [op |-> "import", result |-> result,
                           lens_loaded_before |-> importer.lens_loaded,
                           events |-> ImportEvents(result),
                           returned |-> IF result.ok THEN "object" ELSE "empty",
                           recompute |-> result.ok]]
    /\ UNCHANGED <<rvars, cvars, ovars, lvars, gpu_init, integ, calib, telem, feed, estimate, lenscal, keyframes, motion, sizes, exporter, autosync, calmode, gyroload, locking, offmodel>>

\* The queued `progress` callback of a running import.
ImportProgress(done) ==
    /\ importer.process = "running"
    /\ importer.running > 0
    /\ importer' = [importer EXCEPT !.loading = ~done, !.last = NoImport]
    /\ UNCHANGED <<rvars, cvars, ovars, lvars, gpu_init, integ, calib, telem, feed, estimate, lenscal, keyframes, motion, sizes, exporter, autosync, calmode, gyroload, locking, offmodel>>

\* Controller::load_lens_profile: an error of the load is reported, and
\* whatever the load answered, lens_loaded is set and the profile signals are
\* emitted.
LoadLensProfile(load_ok) ==
    /\ importer.process = "running"
    /\ importer' = [importer EXCEPT
                      !.lens_loaded = TRUE,
                      !.last = [NoImport EXCEPT
                                  !.op = "load_lens",
                                  !.result.ok = load_ok,
                                  !.lens_loaded_before = importer.lens_loaded,
                                  !.events =
                                     (IF load_ok THEN << >> ELSE <<"error">>)
                                     \o <<"lens_changed", "lens_profile_loaded">>,
                                  !.recompute = TRUE]]
    /\ UNCHANGED <<rvars, cvars, ovars, lvars, gpu_init, integ, calib, telem, feed, estimate, lenscal, keyframes, motion, sizes, exporter, autosync, calmode, gyroload, locking, offmodel>>

\* ------------------------------------- the calibrator-mode flag during a run

\* Background tasks of start_autocalibrate started in one behaviour.
MaxCalModeTasks == 1

CalModeTasks == 1..MaxCalModeTasks

\* The ways through the task: the file does not open, the decoder returns an
\* error, the solver fails, or everything succeeds.
CalModePaths == {"open_failed", "decode_error", "solver_failed", "success"}

IdleCalModeTask == [pc |-> "idle", path |-> "none", fed |-> FALSE]

NoCalModeStep == [op |-> "none", task |-> 0, final |-> FALSE]

InitCalMode ==
    calmode = [is_calibrator |-> FALSE, has_calibrator |-> FALSE,
               calib_in_progress |-> FALSE, n_tasks |-> 0,
               tasks |-> [i \in CalModeTasks |-> IdleCalModeTask],
               queue |-> << >>, last |-> NoCalModeStep]

\* Controller::init_calibrator.
CalModeInitCalibrator ==
    /\ calmode' = [calmode EXCEPT !.is_calibrator = TRUE,
                                  !.has_calibrator = TRUE,
                                  !.last = [NoCalModeStep EXCEPT !.op = "init"]]
    /\ UNCHANGED <<rvars, cvars, ovars, lvars, gpu_init, integ, calib, telem, feed, estimate, lenscal, keyframes, motion, sizes, exporter, autosync, importer, gyroload, locking, offmodel>>

\* Controller::start_autocalibrate on the control thread (max_points = 0, so
\* the calibrator is not touched before the task): calib_in_progress is set
\* and the task is handed to core::run_threaded.
CalModeStart ==
    /\ calmode.n_tasks < MaxCalModeTasks
    /\ LET i == calmode.n_tasks + 1 IN
       calmode' = [calmode EXCEPT
                     !.calib_in_progress = TRUE,
                     !.n_tasks = i,
                     !.tasks[i] = [IdleCalModeTask EXCEPT !.pc = "opening"],
                     !.last = [op |-> "start", task |-> i, final |-> FALSE]]
    /\ UNCHANGED <<rvars, cvars, ovars, lvars, gpu_init, integ, calib, telem, feed, estimate, lenscal, keyframes, motion, sizes, exporter, autosync, importer, gyroload, locking, offmodel>>

\* An event posted through the queued callbacks `progress` and `err`;
\* `final` is ready = total.
CalModeEvent(kind, final) == [kind |-> kind, final |-> final]

\* `match VideoProcessor::from_file(..)`: Err posts err and goes on to the
\* statements after the match.
CalModeOpen(i, ok) ==
    /\ calmode.tasks[i].pc = "opening"
    /\ calmode' = [calmode EXCEPT
                     !.tasks[i].pc = IF ok THEN "decoding" ELSE "decoded",
                     !.tasks[i].path = IF ok THEN @ ELSE "open_failed",
                     !.queue = IF ok THEN @
                               ELSE Append(@, CalModeEvent("err", FALSE)),
                     !.last = [op |-> "task", task |-> i, final |-> FALSE]]
    /\ UNCHANGED <<rvars, cvars, ovars, lvars, gpu_init, integ, calib, telem, feed, estimate, lenscal, keyframes, motion, sizes, exporter, autosync, importer, gyroload, locking, offmodel>>

\* on_frame for a selected frame: a scaled frame is fed (the unwrap of the
\* calibrator panics the task when there is none), and feed_frame reports
\* progress with ready < total; a scale failure posts err.
CalModeOnFrame(i, scale_ok) ==
    /\ calmode.tasks[i].pc = "decoding"
    /\ ~calmode.tasks[i].fed
    /\ calmode' = [calmode EXCEPT
                     !.tasks[i].fed = TRUE,
                     !.tasks[i].pc = IF scale_ok /\ ~calmode.has_calibrator
                                     THEN "panicked" ELSE @,
                     !.queue = IF ~scale_ok
                               THEN Append(@, CalModeEvent("err", FALSE))
                               ELSE IF calmode.has_calibrator
                               THEN Append(@, CalModeEvent("progress", FALSE))
                               ELSE @,
                     !.last = [op |-> "task", task |-> i, final |-> FALSE]]
    /\ UNCHANGED <<rvars, cvars, ovars, lvars, gpu_init, integ, calib, telem, feed, estimate, lenscal, keyframes, motion, sizes, exporter, autosync, importer, gyroload, locking, offmodel>>

\* `if let Err(e) = proc.start_decoder_only(..) { err(..) }`.
CalModeDecoderReturns(i, ok) ==
    /\ calmode.tasks[i].pc = "decoding"
    /\ calmode' = [calmode EXCEPT
                     !.tasks[i].pc = "decoded",
                     !.tasks[i].path = IF ok THEN @ ELSE "decode_error",
                     !.queue = IF ok THEN @
                               ELSE Append(@, CalModeEvent("err", FALSE)),
                     !.last = [op |-> "task", task |-> i, final |-> FALSE]]
    /\ UNCHANGED <<rvars, cvars, ovars, lvars, gpu_init, integ, calib, telem, feed, estimate, lenscal, keyframes, motion, sizes, exporter, autosync, importer, gyroload, locking, offmodel>>

\* `stab.params.write().is_calibrator = false`, then the wait for the
\* processed frames.
CalModeSuspend(i) ==
    /\ calmode.tasks[i].pc = "decoded"
    /\ calmode' = [calmode EXCEPT
                     !.tasks[i].pc = "waiting",
                     !.is_calibrator = FALSE,
                     !.last = [op |-> "suspend", task |-> i, final |-> FALSE]]
    /\ UNCHANGED <<rvars, cvars, ovars, lvars, gpu_init, integ, calib, telem, feed, estimate, lenscal, keyframes, motion, sizes, exporter, autosync, importer, gyroload, locking, offmodel>>

\* `cal.calibrate(is_forced)` on the unwrapped calibrator, err on failure,
\* then `progress((total, total, 0, cal.rms))`.
CalModeSolve(i, solver_ok) ==
    /\ calmode.tasks[i].pc = "waiting"
    /\ IF ~calmode.has_calibrator
       THEN calmode' = [calmode EXCEPT
                          !.tasks[i].pc = "panicked",
                          !.last = [op |-> "task", task |-> i, final |-> FALSE]]
       ELSE calmode' =
              [calmode EXCEPT
                 !.tasks[i].pc = "solved",
                 !.tasks[i].path = IF @ # "none" THEN @
                                   ELSE IF solver_ok THEN "success"
                                   ELSE "solver_failed",
                 !.queue = (IF solver_ok THEN @
                            ELSE Append(@, CalModeEvent("err", FALSE)))
                           \o <<CalModeEvent("progress", TRUE)>>,
                 !.last = [op |-> "task", task |-> i, final |-> FALSE]]
    /\ UNCHANGED <<rvars, cvars, ovars, lvars, gpu_init, integ, calib, telem, feed, estimate, lenscal, keyframes, motion, sizes, exporter, autosync, importer, gyroload, locking, offmodel>>

\* Variant: the flag is left as the task found it.
LeaveSuspended(is_calibrator) == is_calibrator

\* `stab.params.write().is_calibrator = true`, the last statement of the task.
ResumeCalibratorMode(is_calibrator) == TRUE

CalModeTaskEnds(i) ==
    /\ calmode.tasks[i].pc = "solved"
    /\ calmode' = [calmode EXCEPT
                     !.tasks[i].pc = "done",
                     !.is_calibrator = ResumeCalibratorMode(@),
                     !.last = [op |-> "end", task |-> i, final |-> FALSE]]
    /\ UNCHANGED <<rvars, cvars, ovars, lvars, gpu_init, integ, calib, telem, feed, estimate, lenscal, keyframes, motion, sizes, exporter, autosync, importer, gyroload, locking, offmodel>>

\* What the queued callbacks leave in calib_in_progress: `ready < total` for
\* progress, false for err.
CalibInProgressAfter(event) ==
    IF event.kind = "progress" THEN ~event.final ELSE FALSE

\* The control thread runs the next queued callback.
CalModeDeliver ==
    /\ calmode.queue # << >>
    /\ LET event == Head(calmode.queue) IN
       calmode' = [calmode EXCEPT
                     !.queue = Tail(@),
                     !.calib_in_progress = CalibInProgressAfter(event),
                     !.last = [op |-> event.kind, task |-> 0,
                               final |-> event.final]]
    /\ UNCHANGED <<rvars, cvars, ovars, lvars, gpu_init, integ, calib, telem, feed, estimate, lenscal, keyframes, motion, sizes, exporter, autosync, importer, gyroload, locking, offmodel>>

\* --------------------------------------- loading_gyro_in_progress

\* Calls of load_telemetry in one behaviour.
MaxLoadCalls == 2

LoadCalls == 1..MaxLoadCalls

NoLoadStep == [op |-> "none", is_video_item |-> FALSE, has_duration |-> FALSE]

InitGyroLoad ==
    gyroload = [loading_gyro_in_progress |-> FALSE, n_calls |-> 0,
                tasks |-> [i \in LoadCalls |-> "idle"],
                queue |-> << >>, last |-> NoLoadStep]

\* Controller::load_telemetry on the control thread: the flag is set first;
\* the callbacks are built only for a player that is a video item, and the
\* task is started only when duration and frame rate are positive.
LoadTelemetryCall(is_video_item, has_duration) ==
    /\ gyroload.n_calls < MaxLoadCalls
    /\ LET i == gyroload.n_calls + 1 IN
       gyroload' = [gyroload EXCEPT
                      !.loading_gyro_in_progress = TRUE,
                      !.n_calls = i,
                      !.tasks[i] = IF is_video_item /\ has_duration
                                   THEN "working" ELSE "none",
                      !.last = [op |-> "load_telemetry",
                                is_video_item |-> is_video_item,
                                has_duration |-> has_duration]]
    /\ UNCHANGED <<rvars, cvars, ovars, lvars, gpu_init, integ, calib, telem, feed, estimate, lenscal, keyframes, motion, sizes, exporter, autosync, importer, calmode, locking, offmodel>>

\* load_gyro_data reports its progress through the queued callback
\* `progress`; `complete` is progress >= 1.0.
GyroLoadProgress(i, complete) ==
    /\ gyroload.tasks[i] = "working"
    /\ Len(gyroload.queue) < MaxLoadCalls
    /\ gyroload' = [gyroload EXCEPT
                      !.queue = Append(@, [cb |-> "progress",
                                           complete |-> complete]),
                      !.last = NoLoadStep]
    /\ UNCHANGED <<rvars, cvars, ovars, lvars, gpu_init, integ, calib, telem, feed, estimate, lenscal, keyframes, motion, sizes, exporter, autosync, importer, calmode, locking, offmodel>>

\* The task reaches its last statement, `finished((..))`.
GyroLoadTaskEnds(i) ==
    /\ gyroload.tasks[i] = "working"
    /\ gyroload' = [gyroload EXCEPT
                      !.tasks[i] = "done",
                      !.queue = Append(@, [cb |-> "finished",
                                           complete |-> TRUE]),
                      !.last = NoLoadStep]
    /\ UNCHANGED <<rvars, cvars, ovars, lvars, gpu_init, integ, calib, telem, feed, estimate, lenscal, keyframes, motion, sizes, exporter, autosync, importer, calmode, locking, offmodel>>

\* `this.loading_gyro_in_progress = progress < 1.0` in progress,
\* `this.loading_gyro_in_progress = false` in finished.
LoadingAfter(event) ==
    IF event.cb = "progress" THEN ~event.complete ELSE FALSE

\* The control thread runs the next queued callback.
GyroLoadDeliver ==
    /\ gyroload.queue # << >>
    /\ gyroload' = [gyroload EXCEPT
                      !.queue = Tail(@),
                      !.loading_gyro_in_progress = LoadingAfter(Head(gyroload.queue)),
                      !.last = [NoLoadStep EXCEPT !.op = Head(gyroload.queue).cb]]
    /\ UNCHANGED <<rvars, cvars, ovars, lvars, gpu_init, integ, calib, telem, feed, estimate, lenscal, keyframes, motion, sizes, exporter, autosync, importer, calmode, locking, offmodel>>

\* ------------------------------------------ the order of lock acquisitions

\* Background tasks that can be running at the same time.
MaxLockTasks == 2

\* Process 0 is the control thread, the others are pool threads.
LockProcs == 0..MaxLockTasks

ControlLockOps == {"set_offsets", "start_autocalibrate", "remove_calibration_point"}
TaskLockOps == {"integration", "telemetry", "autocalibrate_task"}

Acq(lock, mode) == [do |-> "acquire", lock |-> lock, mode |-> mode]
Rel(lock) == [do |-> "release", lock |-> lock, mode |-> "none"]

\* The set_offsets callback of start_autosync: `gyro.write()` is held over
\* the loop and over `keyframes.write().update_gyro(&gyro)`.
SetOffsetsLocks ==
    <<Acq("gyro", "write"), Acq("keyframes", "write"), Rel("keyframes"),
      Rel("gyro")>>

\* The task of set_integration_method: `gyro.write()` is held over
\* `smoothing.write().update_quats_checksum(..)`.
IntegrationTaskLocks ==
    <<Acq("gyro", "write"), Acq("smoothing", "write"), Rel("smoothing"),
      Rel("gyro")>>

\* The task of load_telemetry: `gyro.read()` until drop(gyro); then
\* `camera_id.read()` is held to the end, over `lens_profile_db.read()` and
\* `params.read()`.
TelemetryTaskLocks ==
    <<Acq("gyro", "read"), Rel("gyro"),
      Acq("camera_id", "read"),
      Acq("lens_profile_db", "read"), Rel("lens_profile_db"),
      Acq("params", "read"), Rel("params"),
      Rel("camera_id")>>

\* start_autocalibrate on the control thread: `params.read()` and
\* `lens.read()` together, then (max_points > 0) `cal.write()` over
\* `image_points.read()` and `image_points.write()`.
AutocalibrateCallLocks ==
    <<Acq("params", "read"), Acq("lens", "read"), Rel("lens"), Rel("params"),
      Acq("lens_calibrator", "write"),
      Acq("image_points", "read"), Rel("image_points"),
      Acq("image_points", "write"), Rel("image_points"),
      Rel("lens_calibrator")>>

\* The task of start_autocalibrate: `cal.write()` for a frame, `params.write()`
\* after decoding, then `cal.write()` held to the end of the closure, over
\* `lens.write()` and the last `params.write()`.
AutocalibrateTaskLocks ==
    <<Acq("lens_calibrator", "write"), Rel("lens_calibrator"),
      Acq("params", "write"), Rel("params"),
      Acq("lens_calibrator", "write"),
      Acq("lens", "write"), Rel("lens"),
      Acq("params", "write"), Rel("params"),
      Rel("lens_calibrator")>>

\* Variant: the Lens Model is locked before the calibrator.
LensBeforeCalibrator ==
    <<Acq("lens", "write"), Acq("lens_calibrator", "write"),
      Rel("lens_calibrator"), Rel("lens")>>

\* remove_calibration_point: `cal.write()` over `lens.write()`.
RemoveCalibrationPointLocks ==
    <<Acq("lens_calibrator", "write"), Acq("lens", "write"), Rel("lens"),
      Rel("lens_calibrator")>>

LockProgram(op) ==
    CASE op = "set_offsets" -> SetOffsetsLocks
      [] op = "integration" -> IntegrationTaskLocks
      [] op = "telemetry" -> TelemetryTaskLocks
      [] op = "start_autocalibrate" -> AutocalibrateCallLocks
      [] op = "autocalibrate_task" -> AutocalibrateTaskLocks
      [] OTHER -> RemoveCalibrationPointLocks

IdleLockProc == [op |-> "idle", pc |-> 0, held |-> << >>]

InitLocking == locking = [p \in LockProcs |-> IdleLockProc]

\* The locks (with their modes) the processes other than p hold.
HeldByOthers(p) ==
    UNION {{locking[q].held[k] : k \in DOMAIN locking[q].held} :
             q \in LockProcs \ {p}}

\* RwLock: a writer needs the lock free, a reader needs it free of writers.
CanAcquire(p, step) ==
    \A h \in HeldByOthers(p) :
        h.lock = step.lock => (step.mode = "read" /\ h.mode = "read")

\* The step process p is at.
LockStepOf(p) == LockProgram(locking[p].op)[locking[p].pc]

\* An operation begins: on the control thread when it is idle, or as a task
\* on a pool thread.
LockOpStart(p, op) ==
    /\ locking[p].op = "idle"
    /\ op \in (IF p = 0 THEN ControlLockOps ELSE TaskLockOps)
    /\ locking' = [locking EXCEPT ![p] = [op |-> op, pc |-> 1, held |-> << >>]]
    /\ UNCHANGED <<rvars, cvars, ovars, lvars, gpu_init, integ, calib, telem, feed, estimate, lenscal, keyframes, motion, sizes, exporter, autosync, importer, calmode, gyroload, offmodel>>

\* After its last step the operation is over.
AfterLockStep(proc, held) ==
    IF proc.pc = Len(LockProgram(proc.op))
    THEN IdleLockProc
    ELSE [proc EXCEPT !.pc = @ + 1, !.held = held]

\* `.read()` / `.write()`: granted when the lock allows it.
LockAcquire(p) ==
    /\ locking[p].op # "idle"
    /\ LockStepOf(p).do = "acquire"
    /\ CanAcquire(p, LockStepOf(p))
    /\ locking' = [locking EXCEPT ![p] =
                     AfterLockStep(@, Append(locking[p].held,
                                             [lock |-> LockStepOf(p).lock,
                                              mode |-> LockStepOf(p).mode]))]
    /\ UNCHANGED <<rvars, cvars, ovars, lvars, gpu_init, integ, calib, telem, feed, estimate, lenscal, keyframes, motion, sizes, exporter, autosync, importer, calmode, gyroload, offmodel>>

\* The guard goes out of scope.
LockRelease(p) ==
    /\ locking[p].op # "idle"
    /\ LockStepOf(p).do = "release"
    /\ locking' = [locking EXCEPT ![p] =
                     AfterLockStep(@, SelectSeq(locking[p].held,
                                                LAMBDA h : h.lock # LockStepOf(p).lock))]
    /\ UNCHANGED <<rvars, cvars, ovars, lvars, gpu_init, integ, calib, telem, feed, estimate, lenscal, keyframes, motion, sizes, exporter, autosync, importer, calmode, gyroload, offmodel>>

\* ------------------------------------------- offsets_model and the offset map

\* The offset map holds entries at the keys 0..MaxModelKey.
MaxModelKey == 1

ModelKeys == 0..MaxModelKey

NoModelStep == [op |-> "none"]

\* offset_map is the set of keys of the Motion Store's offset map,
\* offsets_model the set of keys of the list the control surface reads.
InitOffsetModel ==
    offmodel = [offset_map |-> {}, offsets_model |-> {},
                telemetry |-> "idle", import |-> "idle", last |-> NoModelStep]

\* Controller::update_offset_model: the list is rebuilt from get_offsets().
UpdateOffsetModel(offsets_model, offset_map) == offset_map

\* set_offset, remove_offset and clear_offsets (wrap_simple_method! with
\* update_offset_model), and load_video, which clears the stabilizer.
OffsetMapAfter(op, key, offset_map) ==
    CASE op = "set_offset" -> offset_map \cup {key}
      [] op = "remove_offset" -> offset_map \ {key}
      [] OTHER -> {}

ModelSetterCall(op, key) ==
    /\ op \in {"set_offset", "remove_offset", "clear_offsets", "load_video"}
    /\ LET after == OffsetMapAfter(op, key, offmodel.offset_map) IN
       offmodel' = [offmodel EXCEPT
                      !.offset_map = after,
                      !.offsets_model = UpdateOffsetModel(@, after),
                      !.last = [op |-> op]]
    /\ UNCHANGED <<rvars, cvars, ovars, lvars, gpu_init, integ, calib, telem, feed, estimate, lenscal, keyframes, motion, sizes, exporter, autosync, importer, calmode, gyroload, locking>>

\* The set_offsets callback of a finished sync run: the offsets are written,
\* then update_offset_model is called.
ModelSyncCompletion(key) ==
    /\ LET after == offmodel.offset_map \cup {key} IN
       offmodel' = [offmodel EXCEPT
                      !.offset_map = after,
                      !.offsets_model = UpdateOffsetModel(@, after),
                      !.last = [op |-> "sync_completion"]]
    /\ UNCHANGED <<rvars, cvars, ovars, lvars, gpu_init, integ, calib, telem, feed, estimate, lenscal, keyframes, motion, sizes, exporter, autosync, importer, calmode, gyroload, locking>>

\* A task of load_telemetry or of import_gyroflow_file / _data is started.
ModelTaskStart(kind) ==
    /\ kind \in {"telemetry", "import"}
    /\ offmodel[kind] = "idle"
    /\ offmodel' = [offmodel EXCEPT ![kind] = "working",
                                    !.last = NoModelStep]
    /\ UNCHANGED <<rvars, cvars, ovars, lvars, gpu_init, integ, calib, telem, feed, estimate, lenscal, keyframes, motion, sizes, exporter, autosync, importer, calmode, gyroload, locking>>

\* The task loads the motion data of the file (load_gyro_data), or the
\* offsets stored in the project file (import_gyroflow_file), into the store
\* and posts `finished`.
ModelTaskLoads(kind, loaded) ==
    /\ kind \in {"telemetry", "import"}
    /\ offmodel[kind] = "working"
    /\ offmodel' = [offmodel EXCEPT ![kind] = "posted",
                                    !.offset_map = loaded,
                                    !.last = NoModelStep]
    /\ UNCHANGED <<rvars, cvars, ovars, lvars, gpu_init, integ, calib, telem, feed, estimate, lenscal, keyframes, motion, sizes, exporter, autosync, importer, calmode, gyroload, locking>>

\* The `finished` callback of load_telemetry calls update_offset_model.
ModelTelemetryFinished ==
    /\ offmodel.telemetry = "posted"
    /\ offmodel' = [offmodel EXCEPT
                      !.telemetry = "idle",
                      !.offsets_model = UpdateOffsetModel(@, offmodel.offset_map),
                      !.last = [op |-> "telemetry_load"]]
    /\ UNCHANGED <<rvars, cvars, ovars, lvars, gpu_init, integ, calib, telem, feed, estimate, lenscal, keyframes, motion, sizes, exporter, autosync, importer, calmode, gyroload, locking>>

\* The `finished` callback of an import calls import_gyroflow_internal, which
\* does not call update_offset_model.
ModelImportFinished ==
    /\ offmodel.import = "posted"
    /\ offmodel' = [offmodel EXCEPT
                      !.import = "idle",
                      !.last = [op |-> "project_import"]]
    /\ UNCHANGED <<rvars, cvars, ovars, lvars, gpu_init, integ, calib, telem, feed, estimate, lenscal, keyframes, motion, sizes, exporter, autosync, importer, calmode, gyroload, locking>>

Init ==
    /\ InitRecompute /\ InitCancel /\ InitOffsets /\ InitLock /\ InitGpu
    /\ InitInteg
    /\ InitCalib
    /\ InitTelem
    /\ InitFeed
    /\ InitEstimate
    /\ InitLensCal
    /\ InitKeyframes
    /\ InitMotion
    /\ InitSizes
    /\ InitExporter
    /\ InitAutosync
    /\ InitImporter
    /\ InitCalMode
    /\ InitGyroLoad
    /\ InitLocking
    /\ InitOffsetModel

Next ==
    \/ SetParam
    \/ \E id \in Ids : StartComputation(id)
    \/ \E id \in Ids : AbortComputation(id)
    \/ \E id \in Ids : FinishComputation(id)
    \/ ComputeCallback

Spec == Init /\ [][Next]_vars

\* The pool threads run every computation that was queued to its end, and the
\* event loop of the control thread runs every queued callback; nothing is
\* assumed about when parameters are set.
SpecFair ==
    /\ Spec
    /\ \A id \in Ids : WF_vars(StartComputation(id))
    /\ \A id \in Ids : WF_vars(FinishComputation(id))
    /\ WF_vars(ComputeCallback)

NextCancel ==
    \/ \E outcome \in {"parse_error", "invalid", "ok"} : StartAutosync(outcome)
    \/ \E v, d \in BOOLEAN : LoadTelemetry(v, d)
    \/ StartAutocalibrate
    \/ ImportGyroflowFile
    \/ ImportGyroflowData
    \/ CancelCurrentOperation
    \/ \E t \in Slots : ImportCheckCount(t)
    \/ \E t \in Slots : ImportWake(t)
    \/ \E t \in Slots : ImportBegin(t)
    \/ \E t \in Slots : TaskObserveCancel(t)
    \/ \E t \in Slots : TaskFinish(t)

SpecCancel == Init /\ [][NextCancel]_vars

NextOffsets ==
    \/ \E ts \in SetterTimestampsUs, v \in OffsetValuesMs : SetOffset(ts, v)
    \/ \E ts \in SetterTimestampsUs : RemoveOffset(ts)
    \/ ClearOffsets
    \/ \E ts \in QueryTimestampsUs : OffsetAtVideoTimestamp(ts)

SpecOffsets == Init /\ [][NextOffsets]_vars

NextSync ==
    \/ \E ts \in SetterTimestampsUs, v \in OffsetValuesMs : SetOffset(ts, v)
    \/ \E ts \in SetterTimestampsUs : RemoveOffset(ts)
    \/ ClearOffsets
    \/ \E m \in 1..MaxPoints, for_rs \in BOOLEAN : StartAutosyncRun(m, for_rs)
    \/ \E o \in OffsetValuesMs : ResolvePoint(o)
    \/ DecoderReturns
    \/ SetOffsetsCallback
    \/ CancelCurrentOperation

SpecSync == Init /\ [][NextSync]_vars

NextAtomic ==
    \/ \E m \in 1..MaxPoints, for_rs \in BOOLEAN : StartAutosyncRun(m, for_rs)
    \/ \E o \in OffsetValuesMs : ResolvePoint(o)
    \/ DecoderReturns
    \/ CbBegin
    \/ CbRemoveNear
    \/ CbSetOffset
    \/ CbRelease
    \/ CbEnd
    \/ ReaderAcquire
    \/ ReaderRelease

SpecAtomic == Init /\ [][NextAtomic]_vars

NextGpu ==
    \/ \E env \in GpuEnvs : InitializeContexts(env)
    \/ ProbeBackend
    \/ ReturnNone

SpecGpu == Init /\ [][NextGpu]_vars

NextInteg ==
    \/ \E index \in Methods : SetIntegrationMethod(index)
    \/ \E i \in 1..MaxCalls : IntegrationTask(i)
    \/ IntegrationFinished

SpecInteg == Init /\ [][NextInteg]_vars

NextCalib ==
    \/ \E max_points \in 0..1 : AutocalibrateCall(max_points)
    \/ AutocalibrateResume
    \/ RemoveCalibrationPoint
    \/ RemoveCalibrationPointResume
    \/ RemoveCalibrationPointEnd
    \/ \E t \in CalibSlots : CalibFeedFrame(t)
    \/ \E t \in CalibSlots : CalibFeedFrameEnd(t)
    \/ \E t \in CalibSlots : CalibDecoderReturns(t)
    \/ \E t \in CalibSlots : CalibSolve(t)
    \/ \E t \in CalibSlots : CalibTaskEnd(t)

SpecCalib == Init /\ [][NextCalib]_vars

NextTelem ==
    \/ \E in \in TelemInputs : LoadTelemetryTask(in)
    \/ \E t \in TelemSlots : TelemLoad(t)
    \/ \E t \in TelemSlots : TelemPost(t)
    \/ TelemDeliver

SpecTelem == Init /\ [][NextTelem]_vars

NextFeed ==
    \/ \E kind \in FeedKinds, n \in EveryNthValues, open_ok \in BOOLEAN :
          FeedTaskStart(kind, n, open_ok)
    \/ \E scale_ok \in BOOLEAN : OnFrame(scale_ok)
    \/ \E result \in {"done", "cancelled", "error"} : DecoderStops(result)
    \/ FinishedFeedingFrames
    \/ OnFinished
    \/ FeedTaskEnd

SpecFeed == Init /\ [][NextFeed]_vars

NextEstimate ==
    \/ \E p \in SyncPoints, table \in CostTables : EstimatePoint(p, table)
    \/ EstimateReset

SpecEstimate == Init /\ [][NextEstimate]_vars

NextLensCal ==
    \/ InitCalibrator
    \/ \E max_points \in 0..1, every_nth_frame \in 1..2,
          custom_us \in CustomTimestamps :
         StartAutocalibrateRun(max_points, every_nth_frame, custom_us)
    \/ \E f \in CalFrames, scale_ok \in BOOLEAN, detected \in BOOLEAN :
         CalOnFrame(f, scale_ok, detected)
    \/ CalDecodingOver
    \/ \E solver_ok \in BOOLEAN : CalTaskSolve(solver_ok)
    \/ \E f \in CalFrames, solver_ok \in BOOLEAN :
         RemoveCalibrationPointAt(FrameTimestampUs(f), solver_ok)

SpecLensCal == Init /\ [][NextLensCal]_vars

NextKeyframes ==
    \/ \E timestamp_us \in KeyTimes, value \in KeyValues :
         SetKeyframe(timestamp_us, value)
    \/ \E timestamp_us \in KeyTimes, easing \in Easings :
         SetKeyframeEasing(timestamp_us, easing)
    \/ \E timestamp_us \in KeyTimes : RemoveKeyframe(timestamp_us)
    \/ ClearKeyframesType
    \/ \E typ_ok \in BOOLEAN, timestamp_ms \in KeyTimes :
         KeyframeValueAtVideoTimestamp(typ_ok, timestamp_ms)

SpecKeyframes == Init /\ [][NextKeyframes]_vars

NextMotion ==
    \/ \E raw \in RawSequences, remember \in BOOLEAN :
         LoadGyroData(raw, remember)
    \/ \E index \in Methods, remember \in BOOLEAN :
         IntegrateWithMethod(index, remember)
    \/ \E bias \in 0..MaxBias, remember \in BOOLEAN : SetImuBias(bias, remember)
    \/ \E rotation \in 0..MaxRotation, remember \in BOOLEAN :
         SetImuRotation(rotation, remember)
    \/ \E remember \in BOOLEAN : RecomputeGyro(remember)
    \/ OtherMotionEdit

SpecMotion == Init /\ [][NextMotion]_vars

NextSizes ==
    \/ \E w \in Sides, h \in Sides : SetOutputSize(w, h)
    \/ \E width \in Sides, height \in Sides : OnResize(width, height)

SpecSizes == Init /\ [][NextSizes]_vars

NextExport ==
    \/ \E override_location \in {NoOverride} \cup (ExportPaths \ {0}),
          overwrite \in BOOLEAN, result \in ExportResults :
         ExportGyroflowFile(override_location, overwrite, result)
    \/ \E path \in ExportPaths : FileRemoved(path)

SpecExport == Init /\ [][NextExport]_vars

NextAutosync ==
    \/ \E outcome \in StartOutcomes, every_nth_frame \in 0..MaxEveryNth :
         StartAutosyncCall(outcome, every_nth_frame)
    \/ \E scale_ok \in BOOLEAN : SyncOnFrame(scale_ok)
    \/ \E result \in {"done", "error"} : SyncDecoderReturns(result)
    \/ SyncDeliver

SpecAutosync == Init /\ [][NextAutosync]_vars

NextImport ==
    \/ ImportStarted
    \/ \E result \in ImportResults : ImportTaskEnds(result)
    \/ ImportGyroflowInternal
    \/ \E done \in BOOLEAN : ImportProgress(done)
    \/ \E load_ok \in BOOLEAN : LoadLensProfile(load_ok)

SpecImport == Init /\ [][NextImport]_vars

NextCalMode ==
    \/ CalModeInitCalibrator
    \/ CalModeStart
    \/ \E i \in CalModeTasks, ok \in BOOLEAN : CalModeOpen(i, ok)
    \/ \E i \in CalModeTasks, scale_ok \in BOOLEAN : CalModeOnFrame(i, scale_ok)
    \/ \E i \in CalModeTasks, ok \in BOOLEAN : CalModeDecoderReturns(i, ok)
    \/ \E i \in CalModeTasks : CalModeSuspend(i)
    \/ \E i \in CalModeTasks, solver_ok \in BOOLEAN : CalModeSolve(i, solver_ok)
    \/ \E i \in CalModeTasks : CalModeTaskEnds(i)
    \/ CalModeDeliver

SpecCalMode == Init /\ [][NextCalMode]_vars

NextGyroLoad ==
    \/ \E is_video_item, has_duration \in BOOLEAN :
         LoadTelemetryCall(is_video_item, has_duration)
    \/ \E i \in LoadCalls, complete \in BOOLEAN : GyroLoadProgress(i, complete)
    \/ \E i \in LoadCalls : GyroLoadTaskEnds(i)
    \/ GyroLoadDeliver

\* Every task that was started runs to its end and the event loop of the
\* control thread runs every queued callback.
SpecGyroLoad ==
    /\ Init /\ [][NextGyroLoad]_vars
    /\ \A i \in LoadCalls : WF_vars(GyroLoadTaskEnds(i))
    /\ WF_vars(GyroLoadDeliver)

NextLocking ==
    \/ \E p \in LockProcs, op \in ControlLockOps \cup TaskLockOps :
         LockOpStart(p, op)
    \/ \E p \in LockProcs : LockAcquire(p)
    \/ \E p \in LockProcs : LockRelease(p)

SpecLocking == Init /\ [][NextLocking]_vars

NextOffsetModel ==
    \/ \E op \in {"set_offset", "remove_offset", "clear_offsets", "load_video"},
          key \in ModelKeys : ModelSetterCall(op, key)
    \/ \E key \in ModelKeys : ModelSyncCompletion(key)
    \/ \E kind \in {"telemetry", "import"} : ModelTaskStart(kind)
    \/ \E kind \in {"telemetry", "import"}, loaded \in SUBSET ModelKeys :
         ModelTaskLoads(kind, loaded)
    \/ ModelTelemetryFinished
    \/ ModelImportFinished

SpecOffsetModel == Init /\ [][NextOffsetModel]_vars

\* ------------------------------------------------------------------ claims

LeavesRunning(id) == comps[id].state = "Running" /\ comps'[id].state # "Running"

\* C1: when a recompute finishes, its result is applied if and only if the
\* generation it was tagged with equals the store's current generation at
\* that moment; a stale result is discarded and changes no applied state, and
\* the applied state changes only by such an apply.
C1_AppliedIffCurrent ==
    [][ /\ \A id \in Ids : LeavesRunning(id) =>
              /\ comps'[id].state = "Completed"
                    <=> comps[id].generation = current_generation
              /\ comps'[id].state = "Completed" =>
                    applied' = [generation |-> comps[id].generation, id |-> id,
                                input |-> comps[id].input]
              /\ comps'[id].state # "Completed" => applied' = applied
        /\ applied' # applied =>
              \E id \in Ids : LeavesRunning(id) /\ comps'[id].state = "Completed"
      ]_vars

\* C1 witness: one computation was applied and another one was discarded.
C1_Witness ==
    \E i, j \in Ids : /\ comps[i].state = "Discarded"
                      /\ comps[j].state = "Completed"
                      /\ applied.id = j

AllFinished == \A id \in Ids : comps[id].state \notin {"Queued", "Running"}

Requested == {id \in Ids : comps[id].state # "Idle"}

HighestGeneration ==
    IF Requested = {} THEN 0
    ELSE CHOOSE g \in {comps[id].generation : id \in Requested} :
            \A id \in Requested : comps[id].generation <= g

\* C2: whatever the order of mutations and completions, the generation of the
\* applied state never goes back, and once every recompute has finished the
\* applied state is the one computed for the mutation with the highest
\* generation (its generation and the parameters it was computed from).
C2_FinalStateIsLatest ==
    [][ /\ applied'.generation >= applied.generation
        /\ (AllFinished' /\ n_mutations' > 0) =>
              /\ applied'.generation = HighestGeneration'
              /\ applied'.generation = current_generation'
              /\ applied'.input = params'
      ]_vars

\* C2 witness: everything has finished, and the stale computation finished
\* (posted its callback) after the newer one that was applied.
C2_Witness ==
    /\ AllFinished
    /\ Len(queued_callbacks) >= 2
    /\ queued_callbacks[1].id > queued_callbacks[2].id
    /\ queued_callbacks[2].discarded
    /\ applied.id = queued_callbacks[1].id

\* C3: the completion callback emits compute_progress 1.0 only when the
\* ongoing set is empty after the finished id was removed, and 0.0 while any
\* other computation is outstanding.
C3_ProgressCompleteOnlyWhenEmpty ==
    compute_progress.from = "callback" =>
        /\ compute_progress.id \notin ongoing_computations
        /\ compute_progress.progress = 1 <=> ongoing_computations = {}
        /\ compute_progress.progress = 0 <=> ongoing_computations # {}

\* C3 witness: a callback ran while another computation was outstanding.
C3_Witness ==
    /\ compute_progress.from = "callback"
    /\ compute_progress.progress = 0
    /\ ongoing_computations # {}

AllowedStep(from, to) ==
    \/ to = from
    \/ from = "Idle" /\ to = "Queued"
    \/ from = "Queued" /\ to = "Running"
    \/ from = "Running" /\ to \in TerminalStates

\* C5: a computation moves only Idle -> Queued -> Running -> one terminal
\* state, never leaves a terminal state, and the applied result always belongs
\* to a Completed computation (never to a discarded or cancelled one).
C5_ComputationStateMachine ==
    [][ \A id \in Ids :
          /\ AllowedStep(comps[id].state, comps'[id].state)
          /\ comps'[id].state \in CompStates
          /\ applied'.id = id => comps'[id].state = "Completed"
      ]_vars

\* C5 witness: the three terminal states are all taken.
C5_Witness ==
    \E i, j, k \in Ids : /\ comps[i].state = "Cancelled"
                         /\ comps[j].state = "Discarded"
                         /\ comps[k].state = "Completed"

\* C6: a task that has started its work and for which no cancel was requested
\* since it was started sees the flag cleared, and a task is aborted only by a
\* cancel requested after it was started: never by one issued for an earlier
\* task.
C6_FlagClearedBeforeNextTask ==
    \A t \in Slots :
        /\ (tasks[t].pc = "working" /\ ~tasks[t].cancelled_since)
              => cancel_flag = FALSE
        /\ tasks[t].pc = "aborted" => tasks[t].cancelled_since

\* C6 witness: a cancel aborted one task, and a task started later is at work
\* with the flag cleared and no cancel requested for it.
C6_Witness ==
    \E t1, t2 \in Slots :
        /\ t1 < t2
        /\ tasks[t1].pc = "aborted"
        /\ tasks[t2].pc = "working"
        /\ ~tasks[t2].cancelled_since
        /\ cancel_flag = FALSE

\* C7: an import thread is not importing while an earlier background task
\* that still holds its clone of the cancel flag is at work.
C7_ImportWaitsForPriorTask ==
    \A i, j \in Slots :
        (j < i /\ tasks[i].kind = "import" /\ tasks[i].pc = "working")
            => ~(HoldsRef(j) /\ tasks[j].pc = "working")

SyncApplies ==
    sync.pc = "finished" /\ sync'.pc = "applied" /\ ~sync.for_rs

C9_RemoveNearThenSetLeavesOne ==
    [][ (SyncApplies /\ sync.delivered # <<>>) =>
          LET b  == sync.delivered
              x  == b[Len(b)]
              ts == NewTs(x)
          IN  /\ Cardinality({k \in DOMAIN offsets' :
                                 IsNear(k, ts, RemoveNearRangeMs)}) = 1
              /\ ts \in DOMAIN offsets'
              /\ offsets'[ts] = x.offset
              /\ \A k \in DOMAIN offsets \cup DOMAIN offsets' :
                    (\A i \in 1..Len(b) : ~IsNear(k, NewTs(b[i]), RemoveNearRangeMs))
                        => /\ k \in DOMAIN offsets
                           /\ k \in DOMAIN offsets'
                           /\ offsets'[k] = offsets[k]
      ]_vars

\* C9 witness: one result was applied, an older entry near its key is gone and
\* an entry farther away is still there.
C9_Witness ==
    /\ sync.pc = "applied" /\ ~sync.for_rs
    /\ Len(sync.delivered) = 1
    /\ sync.removed >= 1
    /\ \E k \in DOMAIN offsets :
          ~IsNear(k, NewTs(sync.delivered[1]), RemoveNearRangeMs)

\* C10: the looked-up offset is the linear interpolation between the two
\* neighbouring keys that straddle ts, the entry's own value at a key, and the
\* value of the first (last) entry when ts lies before (after) every key.
C10_OffsetLookupInterpolates ==
    query # NoQuery =>
        LET ts == query.ts
            keys == DOMAIN offsets
        IN  /\ query.den > 0
            /\ \A k1, k2 \in keys :
                  (k1 <= ts /\ ts <= k2 /\ k1 < k2
                      /\ ~\E k \in keys : k1 < k /\ k < k2)
                  => query.num * (k2 - k1) =
                        query.den * (offsets[k1] * (k2 - ts) + offsets[k2] * (ts - k1))
            /\ ts \in keys => query.num = query.den * offsets[ts]
            /\ (keys # {} /\ \A k \in keys : ts < k)
                  => query.num = query.den * offsets[Min(keys)]
            /\ (keys # {} /\ \A k \in keys : ts > k)
                  => query.num = query.den * offsets[Max(keys)]

\* C10 witness: a lookup strictly between two entries with different offsets.
C10_Witness ==
    /\ query # NoQuery
    /\ \E k1, k2 \in DOMAIN offsets :
          /\ k1 < query.ts /\ query.ts < k2
          /\ offsets[k1] # offsets[k2]
          /\ query.num # query.den * offsets[k1]
          /\ query.num # query.den * offsets[k2]

\* C11: no reader of the map ever sees it half-updated (entries near a new
\* key purged, new entry not yet inserted): the map is half-updated only while
\* the callback holds the write lock and no reader holds the lock, every view
\* a reader took was taken outside that window, and when the callback returns
\* the map is the one the whole loop produces from the map it started with.
C11_ReadersNeverSeeHalfUpdate ==
    /\ ~last_read.half
    /\ HalfUpdated => (gyro_lock.writer /\ gyro_lock.readers = 0)
    /\ (offsets_cb.pc = "tail" /\ ~sync.for_rs)
          => offsets = ApplySyncOffsets(offsets_cb.before, sync.delivered)

\* C11 witness: a callback replaced an entry near a new key, and a reader then
\* looked at the map and saw the new entry.
C11_Witness ==
    /\ sync.pc = "applied" /\ ~sync.for_rs
    /\ sync.removed >= 1
    /\ last_read.n = 1
    /\ last_read.view = offsets
    /\ gyro_lock.readers > 0

OpenClOn == gpu_init.env.feature_opencl /\ ~gpu_init.env.no_opencl
WgpuOn == ~gpu_init.env.no_wgpu

\* C12: when initialize_contexts has returned, OpenCL was probed iff it is
\* enabled, wgpu was probed iff it is enabled and OpenCL was disabled or its
\* probe failed, OpenCL before wgpu; the result is the names of the first
\* probe that succeeded, and None exactly when every enabled probe failed.
C12_ProbesInFixedOrder ==
    gpu_init.pc = "returned" =>
        LET clOk == OpenClOn /\ gpu_init.env.cl = "ok"
            wgOk == WgpuOn /\ gpu_init.env.wg = "ok"
        IN  /\ gpu_init.probed =
                  (IF OpenClOn THEN <<"OpenCL">> ELSE <<>>)
                  \o (IF WgpuOn /\ ~clOk THEN <<"wgpu">> ELSE <<>>)
            /\ gpu_init.result =
                  IF clOk THEN "OpenCL" ELSE IF wgOk THEN "wgpu" ELSE "None"
            /\ gpu_init.result = "None" <=> (~clOk /\ ~wgOk)

\* C12 witness: OpenCL was probed and failed, then wgpu was probed and chosen.
C12_Witness ==
    /\ gpu_init.pc = "returned"
    /\ gpu_init.probed = <<"OpenCL", "wgpu">>
    /\ gpu_init.result = "wgpu"

\* C13: no probe failure leaves initialize_contexts other than by its return:
\* a call that has begun can always take its next step and never ends in a
\* panic; every probe that failed (error or panic) left a log entry; and a
\* failed OpenCL probe is followed by the wgpu probe when wgpu is enabled.
C13_ProbeFailuresAreCaught ==
    /\ gpu_init.pc # "panicked"
    /\ gpu_init.pc = "probing" => ENABLED (ProbeBackend \/ ReturnNone)
    /\ gpu_init.pc = "returned" =>
          /\ \A i \in 1..Len(gpu_init.probed) :
                LET b == gpu_init.probed[i]
                    o == IF b = "OpenCL" THEN gpu_init.env.cl ELSE gpu_init.env.wg
                IN  o # "ok" => \E j \in 1..Len(gpu_init.log) :
                                    gpu_init.log[j] = [backend |-> b, kind |-> o]
          /\ (OpenClOn /\ gpu_init.env.cl # "ok" /\ WgpuOn)
                => \E i \in 1..Len(gpu_init.probed) : gpu_init.probed[i] = "wgpu"

\* C13 witness: the OpenCL probe panicked, the wgpu probe was still tried and
\* panicked too, both were logged and the call returned None.
C13_Witness ==
    /\ gpu_init.pc = "returned"
    /\ gpu_init.result = "None"
    /\ gpu_init.log = <<[backend |-> "OpenCL", kind |-> "panic"],
                        [backend |-> "wgpu", kind |-> "panic"]>>

IsCall == integ'.n_calls = integ.n_calls + 1

\* C14: a set_integration_method call starts a background task exactly when
\* its index differs from the method the store holds when the call is made;
\* a call with the store's own method changes nothing (no task, no
\* invalidation, no recompute request); every re-integration belongs to a call
\* whose index differed, and invalidations and recompute requests come only
\* from such tasks.
C14_ReintegrateOnlyOnChange ==
    [][ /\ IsCall =>
              /\ integ'.last.spawned <=> integ'.last.index # integ.method
              /\ Len(integ'.pending) = Len(integ.pending)
                    + (IF integ'.last.index # integ.method THEN 1 ELSE 0)
              /\ integ'.method = integ.method
              /\ integ'.reintegrations = integ.reintegrations
              /\ integ'.invalidations = integ.invalidations
              /\ integ'.posted = integ.posted
              /\ integ'.recompute_requests = integ.recompute_requests
        /\ \A i \in 1..Len(integ'.pending) :
              integ'.pending[i].index # integ'.pending[i].seen
        /\ integ'.reintegrations > integ.reintegrations =>
              \E i \in 1..Len(integ.pending) :
                  /\ integ.pending[i].index # integ.pending[i].seen
                  /\ integ'.method = integ.pending[i].index
        /\ integ'.invalidations = integ'.reintegrations
        /\ integ'.recompute_requests + integ'.posted = integ'.reintegrations
      ]_vars

\* C14 witness: after a re-integration, a call with the method the store now
\* holds returned without starting anything.
C14_Witness ==
    /\ integ.last.kind = "call"
    /\ ~integ.last.spawned
    /\ integ.last.index = integ.method
    /\ integ.method # 0
    /\ integ.reintegrations = 1
    /\ integ.pending = <<>>

\* C15: the control thread never waits for a lock that a background task
\* holds while it feeds a frame or solves the calibration, and the calibration
\* is never solved on the control thread itself.
C15_ControlThreadNeverBlocks ==
    /\ ~(calib.ctl.pc = "waiting" /\ calib.lock \in CalibSlots)
    /\ calib.ctl.pc # "solving"

\* Position of the callback `name` in the sequence s (0 when absent).
IndexOf(s, name) ==
    IF \E i \in 1..Len(s) : s[i] = name
    THEN CHOOSE i \in 1..Len(s) : s[i] = name
    ELSE 0

Count(s, name) == Cardinality({i \in 1..Len(s) : s[i] = name})

Drained(t) ==
    /\ telem.tasks[t].pc = "done"
    /\ \A i \in 1..Len(telem.queue) : telem.queue[i].task # t

Emitted(t, name) ==
    Count(telem.tasks[t].applied, name)
    + Cardinality({i \in 1..Len(telem.queue) :
                      telem.queue[i] = [task |-> t, cb |-> name]})

\* C20: a task on the main video whose load_gyro_data failed emits no error
\* event and still delivers finished (which emits telemetry_loaded) without
\* metadata; a task on a separate telemetry file whose load_gyro_data failed
\* emits exactly one error event, and delivers finished as well.
C20_MissingTelemetryOnMainVideoIsNoError ==
    \A t \in TelemSlots :
        LET task == telem.tasks[t]
            in   == task.in
        IN  /\ (task.pc \in {"posting", "done"} /\ in.is_main /\ in.init_ok
                    /\ ~in.gyro_ok)
                  => /\ Emitted(t, "err") = 0
                     /\ Emitted(t, "on_metadata") = 0
            /\ (task.pc \in {"posting", "done"} /\ ~in.is_main /\ ~in.gyro_ok)
                  => Emitted(t, "err") = 1
            /\ Drained(t) =>
                  /\ Count(task.applied, "finished") = 1
                  /\ task.applied[Len(task.applied)] = "finished"

\* C20 witness: a main-video task without telemetry has ended; only the lens
\* reload and finished were applied.
C20_Witness ==
    \E t \in TelemSlots :
        /\ Drained(t)
        /\ telem.tasks[t].in.is_main
        /\ telem.tasks[t].in.init_ok
        /\ ~telem.tasks[t].in.gyro_ok
        /\ telem.tasks[t].applied = <<"reload_lens", "finished">>

\* Positions of the events named `name` in the log of the run.
Positions(name) == {i \in 1..Len(feed.log) : feed.log[i].ev = name}

\* C17 as stated: completion is signalled only after all frames of the
\* requested ranges have been delivered to on_frame.
C17_CompletionOnlyAfterAllFrames ==
    Positions("finished_feeding_frames") # {} => feed.abs_frame_no = MaxFrames

\* C17, amended: finished_feeding_frames is called at most once, only after
\* start_decoder_only has returned (all ranges decoded, or stopped early by a
\* cancel or a decoder error); no frame is fed after it; on_finished is not
\* delivered before it; and when the decoder ran to its end all frames of the
\* ranges had been delivered before completion was signalled.
C17_CompletionAfterDecoderReturned ==
    feed.kind = "autosync" =>
        /\ Cardinality(Positions("finished_feeding_frames")) <= 1
        /\ \A f \in Positions("finished_feeding_frames") :
              /\ \E d \in Positions("decoder_returned") : d < f
              /\ \A i \in Positions("feed") : i < f
              /\ \A i \in Positions("on_finished") : f < i
              /\ feed.result = "done" => feed.abs_frame_no = MaxFrames
        /\ Positions("on_finished") # {} => Positions("finished_feeding_frames") # {}

\* C17 witness: a sync run fed frames, the decoder returned, completion was
\* signalled and the results were handed over.
C17_Witness ==
    /\ feed.kind = "autosync"
    /\ feed.result = "done"
    /\ Cardinality(Positions("feed")) >= 2
    /\ Positions("on_finished") # {}

\* C19: a frame that cannot be scaled is reported by one error event and
\* does not stop the run: right after the report the task is still decoding,
\* every selected frame decoded so far was either fed or reported (none is
\* dropped silently, none reported twice), in a sync run and in a calibration
\* run alike.
C19_ScaleFailureDoesNotAbortSiblings ==
    /\ (feed.log # <<>> /\ feed.log[Len(feed.log)].ev = "scale_err")
          => feed.pc = "decoding"
    /\ feed.frame_no = Cardinality(Positions("feed"))
                       + Cardinality(Positions("scale_err"))
    /\ \A i, j \in Positions("feed") \cup Positions("scale_err") :
          feed.log[i].frame = feed.log[j].frame => i = j

\* C19 witness: in a calibration run a frame failed to scale and a later
\* frame was fed.
C19_Witness ==
    /\ feed.kind = "autocalibrate"
    /\ \E i \in Positions("scale_err") : \E j \in Positions("feed") : i < j

\* C18: when a sync point is resolved, the reported offset is a candidate of
\* the search window, its cost is the smallest cost among all candidates of
\* that point, the reported cost is that minimum, and the results of the other
\* points are left as they were.
C18_ReportedOffsetMinimisesCost ==
    [][ \A p \in SyncPoints :
          (~estimate.results[p].done /\ estimate'.results[p].done) =>
              LET r     == estimate'.results[p]
                  table == estimate'.last.table
              IN  /\ estimate'.last.point = p
                  /\ r.offset \in Candidates
                  /\ Abs(r.offset) <= MaxCandidateSteps * 50
                  /\ r.cost = table[r.offset]
                  /\ \A c \in Candidates : r.cost <= table[c]
                  /\ \A q \in SyncPoints \ {p} :
                        estimate'.results[q] = estimate.results[q]
      ]_vars

\* C18 witness: two points were resolved to different offsets with different
\* costs, the last one from a table whose minimum is not at the first candidate.
C18_Witness ==
    /\ estimate.results[1].done /\ estimate.results[2].done
    /\ estimate.results[1].offset # estimate.results[2].offset
    /\ estimate.results[1].cost # estimate.results[2].cost
    /\ estimate.last.table[Min(Candidates)] > MinCost(estimate.last.table)

\* C21: no failure path of a controller operation terminates the process:
\* every operation returns control to its caller for every input, calibration
\* operations invoked before a calibrator was initialised included.
C21_EveryOperationReturns == lenscal.process = "running"

\* Two keyframes of the type with no keyframe between them.
Consecutive(keys, t0, t1) ==
    /\ t0 \in KeyedTimes(keys) /\ t1 \in KeyedTimes(keys) /\ t0 < t1
    /\ \A t \in KeyedTimes(keys) : ~(t0 < t /\ t < t1)

\* C22: with keyframes at t0 < t1, sampling at t0 and at t1 returns exactly
\* their values and sampling strictly between returns a value within
\* [min(v0,v1), max(v0,v1)] for every easing kind; a type with one keyframe
\* samples as that keyframe's value and a type without keyframes as the
\* default value, whatever the timestamp.
C22_SamplingStaysBetweenKeyframes ==
    LET keys == keyframes.keys
        s == keyframes.last
    IN (s.op = "sample" /\ s.typ_ok) =>
         /\ \A t0, t1 \in KeyTimes :
              Consecutive(keys, t0, t1) =>
                /\ s.timestamp = t0 => s.result = keys[t0].value * EaseScale
                /\ s.timestamp = t1 => s.result = keys[t1].value * EaseScale
                /\ (t0 < s.timestamp /\ s.timestamp < t1) =>
                     /\ s.result >= Min({keys[t0].value, keys[t1].value}) * EaseScale
                     /\ s.result <= Max({keys[t0].value, keys[t1].value}) * EaseScale
         /\ \A t \in KeyTimes :
              KeyedTimes(keys) = {t} => s.result = keys[t].value * EaseScale
         /\ KeyedTimes(keys) = {} => s.result = Undefined

\* A sample strictly between two keyframes of different values, eased, that
\* is strictly between the two values.
C22_Witness ==
    LET keys == keyframes.keys
        s == keyframes.last
    IN /\ s.op = "sample" /\ s.typ_ok
       /\ \E t0, t1 \in KeyTimes :
            /\ Consecutive(keys, t0, t1)
            /\ t0 < s.timestamp /\ s.timestamp < t1
            /\ keys[t0].easing = "EaseInOut"
            /\ keys[t0].value > keys[t1].value
            /\ s.result > keys[t1].value * EaseScale
            /\ s.result < keys[t0].value * EaseScale

\* The orientations in the store were integrated from the inputs of the run
\* that is remembered.
SameInputsAsSeen ==
    /\ motion.seen.valid
    /\ motion.quaternions # << >>
    /\ motion.seen.raw = motion.raw
    /\ motion.seen.method = motion.method
    /\ motion.seen.bias = motion.bias
    /\ motion.seen.rotation = motion.rotation

C24_RegenerateExactlyOnSizeChange ==
    LET r == sizes.last IN
    /\ r.op = "set_output_size" =>
         /\ r.undistortion <=> r.changed
         /\ r.recompute <=> r.changed
    /\ r.op = "on_resize" =>
         /\ (r.size_set \/ r.recompute) =>
              (r.before[1] # r.w \/ r.before[2] # r.h)
         /\ r.size_set => sizes.size = <<r.w, r.h>>
         /\ ~r.size_set => sizes.size = r.before

\* A resize to the current size that did nothing, after one that changed only
\* the height.
C24_Witness ==
    /\ sizes.last.op = "on_resize"
    /\ ~sizes.last.size_set /\ ~sizes.last.recompute
    /\ sizes.last.before = <<sizes.last.w, sizes.last.h>>
    /\ sizes.size = <<1, 2>>
    /\ sizes.output_size = <<2, 1>>

C26_ExportHasExactlyOneOutcome ==
    LET r == exporter.last IN
    r.op = "export" =>
      /\ Len(r.events) = 1
      /\ IF ~r.overwrite /\ r.existed
         THEN r.events[1] = "gyroflow_exists" /\ ~r.wrote
         ELSE /\ r.result = "Ok" => r.events[1] = "message"
              /\ r.result = "PermissionDenied" => r.events[1] = "request_location"
              /\ r.result = "OtherError" => r.events[1] = "error"
              /\ r.wrote <=> r.result = "Ok"

\* An export over an existing file, with overwrite, that was denied.
C26_Witness ==
    /\ exporter.last.op = "export"
    /\ exporter.last.overwrite /\ exporter.last.existed
    /\ exporter.last.path # 0
    /\ exporter.last.events = <<"request_location">>
    /\ 0 \in exporter.files

\* C27: when start_autosync cannot start a sync (the sync_params JSON does not
\* parse, or from_manager rejects the parameters), an error event is
\* delivered, sync_in_progress ends up false, no background task is started
\* and the offset map is left unchanged.
C27_FailedStartReportsAndChangesNothing ==
    /\ []((autosync.n_calls > 0 /\ autosync.task.pc = "idle"
              /\ autosync.queue = << >>) =>
            /\ autosync.emitted = "error"
            /\ ~autosync.sync_in_progress
            /\ autosync.offset_map = 0)
    /\ [][(autosync'.last.op = "start" /\ autosync'.last.outcome # "ok") =>
            /\ autosync'.task = autosync.task
            /\ autosync'.offset_map = autosync.offset_map
            /\ IF autosync'.last.outcome = "parse_error"
               THEN /\ autosync'.emitted = "error"
                    /\ ~autosync'.sync_in_progress
                    /\ autosync'.queue = autosync.queue
               ELSE autosync'.queue = Append(autosync.queue, "err")]_vars
    /\ [][(autosync'.last.op = "deliver" /\ autosync'.last.outcome = "err") =>
            /\ autosync'.emitted = "error"
            /\ ~autosync'.sync_in_progress
            /\ autosync'.task = autosync.task
            /\ autosync'.offset_map = autosync.offset_map]_vars

\* The err callback of a call whose parameters were rejected has been
\* delivered, and no task was ever started.
C27_Witness ==
    /\ autosync.last.op = "deliver" /\ autosync.last.outcome = "err"
    /\ autosync.task.pc = "idle"
    /\ autosync.queue = << >>
    /\ autosync.emitted = "error"
    /\ ~autosync.sync_in_progress

\* The set of the elements of a sequence.
Elements(s) == {s[i] : i \in DOMAIN s}

\* The sequence is strictly increasing.
Increasing(s) == \A i, j \in DOMAIN s : i < j => s[i] < s[j]

\* C28: in autosync the stride is at least 1 for every every_nth_frame of the
\* caller (0 included); exactly the decoded frames whose absolute index is a
\* multiple of the stride are handed to the scaler; and the frame numbers
\* passed to feed_frame are consecutive integers from 0 that skip a number
\* only when scaling that frame failed.
C28_StrideAndFrameNumbers ==
    LET t == autosync.task IN
    t.pc # "idle" =>
      /\ t.stride >= 1
      /\ t.given >= 1 => t.stride = t.given
      /\ Increasing(t.scaled)
      /\ Elements(t.scaled) =
           {n \in 0..(t.abs_frame_no - 1) : n % t.stride = 0}
      /\ Increasing(t.fed)
      /\ Elements(t.fed) \cup Elements(t.failed) = 0..(Len(t.scaled) - 1)
      /\ Elements(t.fed) \cap Elements(t.failed) = {}

\* A run started with every_nth_frame = 0 that fed frames 0 and 2 and could
\* not scale the frame in between.
C28_Witness ==
    /\ autosync.last.op # "start"
    /\ autosync.task.given = 0
    /\ autosync.task.stride = 1
    /\ autosync.task.fed = <<0, 2>>
    /\ autosync.task.failed = <<1>>
    /\ autosync.task.scaled = <<0, 1, 2>>

\* C29: import_gyroflow_internal on a successful import sets lens_loaded and
\* emits lens_profile_loaded exactly when the imported object contains the key
\* calibration_data, and always requests a recompute; on a failed import it
\* emits an error event, returns an empty object, requests no recompute and
\* leaves lens_loaded unchanged.
C29_ImportOutcome ==
    LET r == importer.last
        emitted == {r.events[i] : i \in DOMAIN r.events}
    IN (r.op = "import" /\ importer.process = "running") =>
         IF r.result.ok
         THEN /\ r.result.is_object
              /\ "lens_profile_loaded" \in emitted <=> r.result.calibration_data
              /\ importer.lens_loaded =
                     (r.result.calibration_data \/ r.lens_loaded_before)
              /\ "request_recompute" \in emitted /\ r.recompute
              /\ "error" \notin emitted
              /\ r.returned = "object"
         ELSE /\ r.events = <<"error">>
              /\ r.returned = "empty"
              /\ ~r.recompute
              /\ importer.lens_loaded = r.lens_loaded_before

\* An import of an object without calibration_data, while no lens was loaded:
\* a recompute is requested and lens_loaded stays false.
C29_Witness ==
    /\ importer.last.op = "import" /\ importer.process = "running"
    /\ importer.last.result.ok /\ ~importer.last.result.calibration_data
    /\ ~importer.lens_loaded
    /\ importer.last.recompute
    /\ importer.n_calls = 2

\* C30: remove_calibration_point(timestamp_us) removes the used point with
\* that timestamp from both forced_frames and used_points (and removes nothing
\* when no point matches), re-runs the solver in every case, and updates the
\* Lens Model only if the solver succeeded; on solver failure the Lens Model
\* is unchanged.
C30_RemoveThenSolve ==
    [][(lenscal'.last.op = "remove" /\ lenscal'.process = "running") =>
         LET before == lenscal.calibrator.cal
             after == lenscal'.calibrator.cal
             gone == {f \in before.used_points :
                        FrameTimestampUs(f) = lenscal'.last.arg}
         IN /\ Cardinality(gone) <= 1
            /\ lenscal'.last.points = Cardinality(gone)
            /\ after.forced_frames = before.forced_frames \ gone
            /\ after.used_points \cap gone = {}
            /\ before.used_points \ gone \subseteq after.used_points
            /\ after.image_points = before.image_points
            /\ lenscal'.last.ok => lenscal'.lens # lenscal.lens
            /\ ~lenscal'.last.ok => lenscal'.lens = lenscal.lens]_vars

\* A forced point was removed and the solver, run on the points that are
\* left, succeeded.
C30_Witness ==
    LET cal == lenscal.calibrator.cal
        frame == FrameAtTimestamp(lenscal.last.arg)
    IN /\ lenscal.last.op = "remove" /\ lenscal.process = "running"
       /\ lenscal.last.points = 1 /\ lenscal.last.ok
       /\ frame \in cal.image_points
       /\ frame \notin cal.used_points /\ frame \notin cal.forced_frames
       /\ cal.forced_frames # {}
       /\ cal.used_points # {}

\* C31: the calibrator-mode flag is only suspended temporarily: during a
\* start_autocalibrate background task is_calibrator is set to false after
\* decoding and is true again when the task ends, on every path (decoder open
\* failure, decode error, solver failure, success), and the final progress
\* event of the task leaves calib_in_progress false.
C31_CalibratorModeIsRestored ==
    /\ [][\A i \in CalModeTasks :
            LET before == calmode.tasks[i]
                after == calmode'.tasks[i]
            IN /\ (before.pc = "decoded" /\ after.pc # "decoded") =>
                    (after.pc = "waiting" /\ ~calmode'.is_calibrator)
               /\ (after.pc \in {"waiting", "solved", "done"}
                   /\ before.pc # after.pc) =>
                    before.pc = (CASE after.pc = "waiting" -> "decoded"
                                   [] after.pc = "solved" -> "waiting"
                                   [] OTHER -> "solved")
               /\ (before.pc # "done" /\ after.pc = "done") =>
                    (calmode'.is_calibrator /\ after.path \in CalModePaths)]_vars
    /\ [][(calmode'.last.op = "progress" /\ calmode'.last.final) =>
            ~calmode'.calib_in_progress]_vars

\* A task has ended after its solver failed, the flag is set again, and the
\* final progress event of the task has just been handled.
C31_Witness ==
    /\ calmode.tasks[1].pc = "done"
    /\ calmode.tasks[1].path = "solver_failed"
    /\ calmode.tasks[1].fed
    /\ calmode.is_calibrator
    /\ calmode.last.op = "progress" /\ calmode.last.final
    /\ ~calmode.calib_in_progress
    /\ calmode.queue = << >>

\* The ids whose completion callback is queued for the control thread.
QueuedIds == {queued_callbacks[k].id : k \in DOMAIN queued_callbacks}

C33_EveryRecomputeIsReported ==
    /\ \A id \in Ids :
         (comps[id].state # "Idle") ~>
           (id \notin ongoing_computations /\ id \notin QueuedIds
            /\ comps[id].state \in TerminalStates)
    /\ [][\A id \in Ids :
            (id \in QueuedIds' /\ id \notin QueuedIds) =>
              (comps[id].state = "Running"
               /\ comps'[id].state \in TerminalStates)]_vars
    /\ (n_mutations > 0) ~>
         (ongoing_computations = {} /\ compute_progress.from = "callback"
          /\ compute_progress.progress = 1)

\* Every recompute of the behaviour was reported, one of them discarded, and
\* the last callback emitted the value 1.0.
C33_Witness ==
    /\ n_mutations = MaxComputations
    /\ \A id \in Ids : comps[id].state \in TerminalStates
    /\ \E id \in Ids : comps[id].state = "Discarded"
    /\ ongoing_computations = {} /\ queued_callbacks = << >>
    /\ compute_progress.from = "callback" /\ compute_progress.progress = 1

\* C34: a cancel request is not lost: once the flag was set while a background
\* task is running, the flag stays true until that task has observed it and
\* stopped; neither the flag reset done by an import's background thread nor
\* the start of another operation clears it earlier.
C34_CancelRequestIsNotLost ==
    \A t \in Slots :
        (tasks[t].pc = "working" /\ tasks[t].cancelled_since) => cancel_flag

\* C35: after every call of load_telemetry, loading_gyro_in_progress
\* eventually becomes false again, for every input (including a player object
\* that is not a video item, or a video whose duration or frame rate is not
\* positive).
C35_LoadingEventuallyEnds ==
    gyroload.loading_gyro_in_progress ~> ~gyroload.loading_gyro_in_progress

\* C36: sync_in_progress is true whenever a sync background task is still
\* decoding and feeding frames, and becomes false only after the sync has
\* finished (ready >= total and percent >= 1.0) or failed to run; callbacks of
\* an earlier, cancelled sync run never change the flag of a later run.
C36_InProgressWhileDecoding ==
    autosync.task.pc = "decoding" => autosync.sync_in_progress

\* C37: lens_loaded becomes true, and lens_profile_loaded is emitted, only
\* after a lens profile was loaded successfully: when load_lens_profile fails
\* to load the given path, the controller reports the error and does not mark
\* a lens as loaded.
C37_FailedLensLoadMarksNothing ==
    LET r == importer.last IN
    (r.op = "load_lens" /\ ~r.result.ok) =>
      /\ \E k \in DOMAIN r.events : r.events[k] = "error"
      /\ importer.lens_loaded = r.lens_loaded_before
      /\ \A k \in DOMAIN r.events : r.events[k] # "lens_profile_loaded"

\* An order of the locks that every acquisition follows.
LockOrder ==
    <<"gyro", "keyframes", "smoothing", "lens_calibrator", "image_points",
      "camera_id", "lens_profile_db", "params", "lens">>

LockRank(lock) == CHOOSE k \in DOMAIN LockOrder : LockOrder[k] = lock

\* Process p is inside an operation and waits for a lock it cannot have.
LockWaiting(p) ==
    /\ locking[p].op # "idle"
    /\ LockStepOf(p).do = "acquire"
    /\ ~CanAcquire(p, LockStepOf(p))

\* C38: the controller's operations and their background tasks acquire the
\* shared locks in a consistent order (a lock is only acquired while the locks
\* held come earlier in one fixed order), so no set of concurrently running
\* operations reaches a deadlock: whenever a process waits for a lock, some
\* process that is inside an operation can take its next step.
C38_LocksTakenInOneOrder ==
    /\ \A p \in LockProcs :
         \A k, l \in DOMAIN locking[p].held :
            k < l => LockRank(locking[p].held[k].lock)
                       < LockRank(locking[p].held[l].lock)
    /\ (\E p \in LockProcs : LockWaiting(p)) =>
         \E q \in LockProcs : locking[q].op # "idle" /\ ~LockWaiting(q)

\* The control thread waits in remove_calibration_point for the calibrator
\* while a calibration task holds it and waits for params, which the
\* telemetry task is reading.
C38_Witness ==
    /\ locking[0].op = "remove_calibration_point" /\ LockWaiting(0)
    /\ \E p, q \in LockProcs \ {0} :
         /\ locking[p].op = "autocalibrate_task" /\ LockWaiting(p)
         /\ Len(locking[p].held) = 1
         /\ locking[q].op = "telemetry" /\ Len(locking[q].held) = 2

\* C39: the offsets_model exposed to the control surface equals the contents
\* of the Motion Store's offset map after every controller operation that can
\* change that map (set_offset, remove_offset, clear_offsets, load_video,
\* telemetry load, sync completion, project import).
C39_OffsetModelFollowsMap ==
    offmodel.last.op # "none" => offmodel.offsets_model = offmodel.offset_map

\* The key a sync result is to be written at: (ts - offset) * 1000 us.
ResultKey(x) == (x.ts - x.offset) * 1000

\* Result i of the batch has a later result whose key lies within the purge
\* range of its own.
PurgedByLater(batch, i) ==
    \E j \in (i + 1)..Len(batch) :
        IsNear(ResultKey(batch[i]), ResultKey(batch[j]), RemoveNearRangeMs)

\* C40 (as stated): when the set_offsets callback of a sync run that is not in
\* estimate_rolling_shutter mode has applied a batch, every result of the
\* batch has its entry in the offset map, at key (ts - offset) * 1000 us with
\* value offset.
C40_EveryResultHasItsEntry ==
    [][ SyncApplies =>
          \A i \in 1..Len(sync.delivered) :
              /\ ResultKey(sync.delivered[i]) \in DOMAIN offsets'
              /\ offsets'[ResultKey(sync.delivered[i])] = sync.delivered[i].offset
      ]_vars

\* C40 (amended): after the batch is applied, every result whose key is not
\* within the purge range of the key of a later result of the batch has its
\* entry at key (ts - offset) * 1000 us with value offset, the last result
\* among them; a result purged by a later one has no entry of its own: its
\* key is absent unless a later result was written at that same key.
C40_UnpurgedResultsHaveTheirEntry ==
    [][ SyncApplies =>
          LET b == sync.delivered IN
          \A i \in 1..Len(b) :
              IF PurgedByLater(b, i)
              THEN ResultKey(b[i]) \in DOMAIN offsets' =>
                      \E j \in (i + 1)..Len(b) :
                          /\ ResultKey(b[j]) = ResultKey(b[i])
                          /\ offsets'[ResultKey(b[i])] = b[j].offset
              ELSE /\ ResultKey(b[i]) \in DOMAIN offsets'
                   /\ offsets'[ResultKey(b[i])] = b[i].offset
      ]_vars

\* C40 witness: a batch of two results was applied; the key of the first lay
\* within the purge range of the second, so only the second has an entry.
C40_Witness ==
    /\ sync.pc = "applied" /\ ~sync.for_rs
    /\ Len(sync.delivered) = 2
    /\ PurgedByLater(sync.delivered, 1)
    /\ ResultKey(sync.delivered[1]) \notin DOMAIN offsets
    /\ ResultKey(sync.delivered[2]) \in DOMAIN offsets

====
